---- MODULE Spec2Model ----
(***************************************************************************)
(* A model of EmailFinder (src/email_finder.py): the SMTP verification     *)
(* probe, the retrying page fetcher with its challenge handling, company   *)
(* domain resolution, email-format inference and pattern generation.       *)
(*                                                                         *)
(* Python strings are TLA+ strings, taken apart with Len, SubSeq and \o,   *)
(* so that formatting, lower-casing, splitting and substring search are    *)
(* computed as the code computes them.  Every routine has a program        *)
(* counter; a caller starts a callee by moving the callee's counter off    *)
(* "idle" and resumes when the callee reaches "done".  The environment     *)
(* (DNS, the browser, the mail server) is a nondeterministic choice at     *)
(* every call.                                                             *)
(***************************************************************************)
EXTENDS Integers, Sequences, FiniteSets, TLC

VARIABLES
    top,        \* the routine the caller of the class invoked, or "none"
    vpc,        \* verify_email: position
    v_email,    \* verify_email: the address being verified
    mx_answer,  \* verify_email: what the first MX lookup answered
    mx_answer2, \* verify_email: what the second MX lookup answered
    mx_domain,  \* verify_email: the host chosen for the SMTP connect
    smtp,       \* verify_email: the SMTP connection ("none", "open", "closed")
    cmds,       \* verify_email: the SMTP commands sent so far, in order
    v_reply,    \* verify_email: the reply code RCPT TO returned (0: none yet)
    v_fail,     \* verify_email: the connection-level failure met ("" if none)
    v_rejected, \* verify_email: the commands the server answered with an error code
    v_result,   \* verify_email: the returned (is_valid, confidence)
    driver,     \* self.driver: "None" or "live"
    headless,   \* self.headless
    fpc,        \* _safe_selenium_get: position
    f_attempt,  \* _safe_selenium_get: the loop variable attempt
    f_gets,     \* _safe_selenium_get: driver.get calls made in this call
    f_failed,   \* _safe_selenium_get: attempts that ended in the retry path
    f_result,   \* _safe_selenium_get: "True", "False", or "raise"
    f_sleeps,   \* _safe_selenium_get: the back-off delays slept, in order
    f_timeout,  \* _safe_selenium_get: the step just taken ended in a TimeoutException
    page,       \* driver.page_source
    clean_seen, \* whether the browser has shown a page without a challenge marker
    cpc,        \* _handle_captcha: position
    c_sel,      \* _handle_captcha: index into redirect_selectors
    frame,      \* the browsing context: "main" or "iframe"
    c_result,   \* _handle_captcha: the returned bool
    dpc,        \* get_company_domain: position
    d_company,  \* get_company_domain: the argument company_name
    d_domain,   \* get_company_domain: the local domain, the direct guess
    d_result,   \* get_company_domain: the value returned
    d_answer,   \* get_company_domain: the DNS check ("none": not made, "records", "empty")
    ipc,        \* find_email_format: position
    i_domain,   \* find_email_format: the argument company_domain
    i_result,   \* find_email_format: the value returned
    i_matched,  \* find_email_format: whether a pattern was found in a snippet
    i_raised,   \* find_email_format: whether the outer handler caught an exception
    i_source,   \* find_email_format: << page_source >> once a page is parsed, else << >>
    gpc,        \* generate_email_patterns: position
    g_first,    \* generate_email_patterns: profile_info['first_name']
    g_last,     \* generate_email_patterns: profile_info['last_name']
    g_company_domain, \* generate_email_patterns: profile_info['company_domain']
    g_domains,  \* generate_email_patterns: the argument domains
    g_driver0,  \* generate_email_patterns: self.driver when it was called
    g_email_format, \* generate_email_patterns: the local email_format
    g_patterns, \* generate_email_patterns: the list returned
    rpc,        \* the request handler: position
    r_kind,     \* the request handler: "main", "index" or "api"
    r_exit,     \* the request handler: how the try block was left
    r_first,    \* the request handler: first_name
    r_last,     \* the request handler: last_name
    r_company,  \* the request handler: company
    r_additional, \* the request handler: additional_domains
    r_profile,  \* the request handler: profile_info, which the routes report
    r_resolutions, \* the request: calls of get_company_domain so far
    xpc,        \* extract_profile_info: position
    x_result,   \* extract_profile_info: the profile_info returned
    epc,        \* find_emails: position
    e_possible, \* find_emails: possible_emails
    e_index,    \* find_emails: the position of the loop in possible_emails
    e_verified, \* find_emails: verified_emails
    e_dropped,  \* find_emails: the addresses verify_email reported not valid
    e_result,   \* find_emails: the list returned
    sessions,   \* browser sessions this finder has started
    quits,      \* driver.quit() calls made on this finder's sessions
    finder,     \* finders side by side: position, config, headless, driver, results
    configs,    \* the dicts DEFAULT_CONFIG and self.config of each finder: key -> object
    objects,    \* the objects the configuration dicts refer to
    actor       \* the finder that took the last step

vvars == << vpc, v_email, mx_answer, mx_answer2, mx_domain, smtp, cmds, v_reply, v_fail,
            v_rejected, v_result >>

fvars == << fpc, f_attempt, f_gets, f_failed, f_result, f_sleeps, f_timeout >>

cvars == << cpc, c_sel, frame, c_result >>

dvars == << dpc, d_company, d_domain, d_result, d_answer >>

ivars == << ipc, i_domain, i_result, i_matched, i_raised, i_source >>

gvars == << gpc, g_first, g_last, g_company_domain, g_domains, g_driver0,
            g_email_format, g_patterns >>

rvars == << rpc, r_kind, r_exit, r_first, r_last, r_company, r_additional, r_profile,
            r_resolutions >>

xvars == << xpc, x_result >>

evars == << epc, e_possible, e_index, e_verified, e_dropped, e_result >>

svars == << sessions, quits >>

hvars == << finder, configs, objects, actor >>

vars == << top, vvars, driver, headless, fvars, page, clean_seen, cvars, dvars,
           ivars, gvars, rvars, xvars, evars, svars, hvars >>

-----------------------------------------------------------------------------
(* Python string primitives.                                               *)

\* s[i - 1]: the i-th character, as a string of length one
At(s, i) == SubSeq(s, i, i)

LowerChar(c) ==
    CASE c = "A" -> "a" [] c = "B" -> "b" [] c = "C" -> "c" [] c = "D" -> "d"
      [] c = "E" -> "e" [] c = "F" -> "f" [] c = "G" -> "g" [] c = "H" -> "h"
      [] c = "I" -> "i" [] c = "J" -> "j" [] c = "K" -> "k" [] c = "L" -> "l"
      [] c = "M" -> "m" [] c = "N" -> "n" [] c = "O" -> "o" [] c = "P" -> "p"
      [] c = "Q" -> "q" [] c = "R" -> "r" [] c = "S" -> "s" [] c = "T" -> "t"
      [] c = "U" -> "u" [] c = "V" -> "v" [] c = "W" -> "w" [] c = "X" -> "x"
      [] c = "Y" -> "y" [] c = "Z" -> "z" [] OTHER -> c

\* s.lower()
RECURSIVE Lower(_)
Lower(s) == IF s = "" THEN "" ELSE LowerChar(Head(s)) \o Lower(Tail(s))

\* `sub in s`
Contains(sub, s) ==
    \E i \in 0..(Len(s) - Len(sub)) : SubSeq(s, i + 1, i + Len(sub)) = sub

-----------------------------------------------------------------------------
(* verify_email                                                            *)

RCPT_OK == 250

RCPT_UNKNOWN == 550

\* the reply codes a server may give to RCPT TO
ReplyCodes == { RCPT_OK, 251, 450, 452, RCPT_UNKNOWN, 551 }

NoResult == [is_valid |-> FALSE, confidence |-> "none"]

Result(valid, conf) == [is_valid |-> valid, confidence |-> conf]

\* re.match(r"[^@]+@[^@]+\.[^@]+", email): anchored at the start only
email_regex_match(s) ==
    \E a \in 2..Len(s) :
        /\ At(s, a) = "@"
        /\ \A i \in 1..(a - 1) : At(s, i) # "@"
        /\ \E b \in (a + 2)..(Len(s) - 1) :
              /\ At(s, b) = "."
              /\ \A i \in (a + 1)..(b - 1) : At(s, i) # "@"
              /\ At(s, b + 1) # "@"

\* the if/elif/else on the RCPT reply code
classify_rcpt(code) ==
    IF code = RCPT_OK THEN Result(TRUE, "High")
    ELSE IF code = RCPT_UNKNOWN THEN Result(FALSE, "Invalid")
    ELSE Result(TRUE, "Medium")

\* a return statement of verify_email
v_return(r) ==
    /\ vpc' = "done"
    /\ v_result' = r

\* the addresses verify_email is called with
VerifyInputs ==
    { "jsmith@acme.com", "jsmith.acme.com", "@acme.com", "jsmith@acme",
      "jsmith@acme.com@" }

verify_email_call(email) ==
    /\ UNCHANGED << rvars, xvars, evars, svars, hvars >>
    /\ UNCHANGED << mx_answer2, v_rejected >>
    /\ UNCHANGED << driver, headless, fvars, page, clean_seen, cvars, dvars, ivars, gvars >>
    /\ top = "none"
    /\ top' = "verify"
    /\ vpc' = "format"
    /\ v_email' = email
    /\ UNCHANGED << mx_answer, mx_domain, smtp, cmds, v_reply, v_fail, v_result >>

\* Method 1: the format check
verify_email_format ==
    /\ UNCHANGED << rvars, xvars, evars, svars, hvars >>
    /\ UNCHANGED << mx_answer2, v_rejected >>
    /\ UNCHANGED << driver, headless, fvars, page, clean_seen, cvars, dvars, ivars, gvars >>
    /\ vpc = "format"
    /\ IF email_regex_match(v_email)
          THEN vpc' = "mx_check" /\ UNCHANGED v_result
          ELSE v_return(Result(FALSE, "Invalid format"))
    /\ UNCHANGED << top, v_email, mx_answer, mx_domain, smtp, cmds, v_reply, v_fail >>

no_mx_records_high == Result(TRUE, "High")

\* return False, "No MX records"
no_mx_records == Result(FALSE, "No MX records")

mx_absent_never(answer) == FALSE

\* if not mx_data.get('Answer'):
mx_absent(answer) == answer = "empty"

\* Method 2: the first MX lookup; an exception is swallowed
verify_email_mx_check ==
    /\ UNCHANGED << rvars, xvars, evars, svars, hvars >>
    /\ UNCHANGED << mx_answer2, v_rejected >>
    /\ UNCHANGED << driver, headless, fvars, page, clean_seen, cvars, dvars, ivars, gvars >>
    /\ vpc = "mx_check"
    /\ \E answer \in { "records", "empty", "error" } :
          /\ mx_answer' = answer
          /\ IF mx_absent(answer)
                THEN v_return(no_mx_records)
                ELSE vpc' = "mx_lookup" /\ UNCHANGED v_result
    /\ UNCHANGED << top, v_email, mx_domain, smtp, cmds, v_reply, v_fail >>

\* Method 3: the second MX lookup, which picks the host to connect to
verify_email_mx_lookup ==
    /\ UNCHANGED << rvars, xvars, evars, svars, hvars >>
    /\ UNCHANGED << driver, headless, fvars, page, clean_seen, cvars, dvars, ivars, gvars >>
    /\ vpc = "mx_lookup"
    /\ UNCHANGED v_rejected
    /\ \E answer \in { "host", "nohost", "malformed", "empty", "error" } :
          /\ mx_answer2' = answer
          /\ mx_domain' = CASE answer = "host" -> "mx"
                            [] answer = "nohost" -> ""
                            [] answer = "empty" -> "None"
                            [] OTHER -> "domain"
          /\ IF answer \in { "nohost", "empty" }
                THEN v_return(Result(FALSE, "No MX domain"))
                ELSE vpc' = "connect" /\ UNCHANGED v_result
    /\ UNCHANGED << top, v_email, mx_answer, smtp, cmds, v_reply, v_fail >>

\* smtp.connect(mx_domain, 25)
verify_email_connect ==
    /\ UNCHANGED << rvars, xvars, evars, svars, hvars >>
    /\ UNCHANGED << mx_answer2, v_rejected >>
    /\ UNCHANGED << driver, headless, fvars, page, clean_seen, cvars, dvars, ivars, gvars >>
    /\ vpc = "connect"
    /\ \/ /\ smtp' = "open"
          /\ cmds' = Append(cmds, "CONNECT")
          /\ vpc' = "helo"
          /\ UNCHANGED << v_result, v_fail >>
       \/ \* socket.gaierror, socket.timeout, ConnectionRefusedError
          /\ vpc' = "connect_domain"
          /\ UNCHANGED << smtp, cmds, v_result, v_fail >>
       \/ \* any other exception reaches the outer handler
          /\ v_fail' = "connect_error"
          /\ v_return(Result(TRUE, "Medium"))
          /\ UNCHANGED << smtp, cmds >>
    /\ UNCHANGED << top, v_email, mx_answer, mx_domain, v_reply >>

connection_failed_as_invalid == Result(FALSE, "Invalid")

\* return False, "Connection failed"
connection_failed == Result(FALSE, "Connection failed")

\* smtp.connect(domain, 25), the fallback
verify_email_connect_domain ==
    /\ UNCHANGED << rvars, xvars, evars, svars, hvars >>
    /\ UNCHANGED << mx_answer2, v_rejected >>
    /\ UNCHANGED << driver, headless, fvars, page, clean_seen, cvars, dvars, ivars, gvars >>
    /\ vpc = "connect_domain"
    /\ \/ /\ smtp' = "open"
          /\ cmds' = Append(cmds, "CONNECT")
          /\ vpc' = "helo"
          /\ UNCHANGED << v_result, v_fail >>
       \/ /\ v_fail' = "connect_refused"
          /\ v_return(connection_failed)
          /\ UNCHANGED << smtp, cmds >>
    /\ UNCHANGED << top, v_email, mx_answer, mx_domain, v_reply >>

quit_raised_left_open == "open"

\* the connection after smtp.quit() raised: quit() raises only from send()
\* or getreply(), and both close the socket before they raise
quit_raised == "closed"

\* smtp.quit() in a handler: it returns, or raises into the outer handler
v_quit_then(r) ==
    /\ cmds' = Append(cmds, "QUIT")
    /\ \/ smtp' = "closed" /\ v_return(r)
       \/ smtp' = quit_raised /\ v_return(Result(TRUE, "Medium"))

verify_email_helo ==
    /\ UNCHANGED << rvars, xvars, evars, svars, hvars >>
    /\ UNCHANGED << driver, headless, fvars, page, clean_seen, cvars, dvars, ivars, gvars >>
    /\ vpc = "helo"
    /\ UNCHANGED mx_answer2
    /\ cmds' = Append(cmds, "HELO")
    /\ \/ \* the server accepts
          vpc' = "starttls" /\ UNCHANGED << v_fail, v_rejected >>
       \/ \* the server answers with an error code: helo() returns it, unread
          vpc' = "starttls" /\ v_rejected' = v_rejected \cup { "HELO" } /\ UNCHANGED v_fail
       \/ \* helo() raises
          vpc' = "helo_failed" /\ v_fail' = "helo" /\ UNCHANGED v_rejected
    /\ UNCHANGED << top, v_email, mx_answer, mx_domain, smtp, v_reply, v_result >>

verify_email_helo_failed ==
    /\ UNCHANGED << rvars, xvars, evars, svars, hvars >>
    /\ UNCHANGED << mx_answer2, v_rejected >>
    /\ UNCHANGED << driver, headless, fvars, page, clean_seen, cvars, dvars, ivars, gvars >>
    /\ vpc = "helo_failed"
    /\ v_quit_then(Result(FALSE, "HELO failed"))
    /\ UNCHANGED << top, v_email, mx_answer, mx_domain, v_reply, v_fail >>

\* has_extn('starttls'), starttls(), helo(); any exception is swallowed
verify_email_starttls ==
    /\ UNCHANGED << rvars, xvars, evars, svars, hvars >>
    /\ UNCHANGED << mx_answer2, v_rejected >>
    /\ UNCHANGED << driver, headless, fvars, page, clean_seen, cvars, dvars, ivars, gvars >>
    /\ vpc = "starttls"
    /\ \/ UNCHANGED cmds
       \/ cmds' = cmds \o << "STARTTLS", "HELO" >>
       \/ cmds' = Append(cmds, "STARTTLS")
    /\ vpc' = "mail"
    /\ UNCHANGED << top, v_email, mx_answer, mx_domain, smtp, v_reply, v_fail, v_result >>

verify_email_mail ==
    /\ UNCHANGED << rvars, xvars, evars, svars, hvars >>
    /\ UNCHANGED << driver, headless, fvars, page, clean_seen, cvars, dvars, ivars, gvars >>
    /\ vpc = "mail"
    /\ UNCHANGED mx_answer2
    /\ cmds' = Append(cmds, "MAIL")
    /\ \/ \* the server accepts the sender
          vpc' = "rcpt" /\ UNCHANGED << v_fail, v_rejected >>
       \/ \* the server answers with an error code: mail() returns it, unread
          vpc' = "rcpt" /\ v_rejected' = v_rejected \cup { "MAIL" } /\ UNCHANGED v_fail
       \/ \* mail() raises
          vpc' = "mail_failed" /\ v_fail' = "mail" /\ UNCHANGED v_rejected
    /\ UNCHANGED << top, v_email, mx_answer, mx_domain, smtp, v_reply, v_result >>

verify_email_mail_failed ==
    /\ UNCHANGED << rvars, xvars, evars, svars, hvars >>
    /\ UNCHANGED << mx_answer2, v_rejected >>
    /\ UNCHANGED << driver, headless, fvars, page, clean_seen, cvars, dvars, ivars, gvars >>
    /\ vpc = "mail_failed"
    /\ v_quit_then(Result(FALSE, "MAIL FROM failed"))
    /\ UNCHANGED << top, v_email, mx_answer, mx_domain, v_reply, v_fail >>

\* code, message = smtp.rcpt(email)
verify_email_rcpt ==
    /\ UNCHANGED << rvars, xvars, evars, svars, hvars >>
    /\ UNCHANGED << mx_answer2, v_rejected >>
    /\ UNCHANGED << driver, headless, fvars, page, clean_seen, cvars, dvars, ivars, gvars >>
    /\ vpc = "rcpt"
    /\ cmds' = Append(cmds, "RCPT")
    /\ \/ \E code \in ReplyCodes :
             /\ v_reply' = code
             /\ vpc' = "rcpt_quit"
             /\ UNCHANGED v_fail
       \/ /\ vpc' = "rcpt_failed"
          /\ v_fail' = "rcpt"
          /\ UNCHANGED v_reply
    /\ UNCHANGED << top, v_email, mx_answer, mx_domain, smtp, v_result >>

\* smtp.quit() after the reply, inside the try block of RCPT TO
verify_email_rcpt_quit ==
    /\ UNCHANGED << rvars, xvars, evars, svars, hvars >>
    /\ UNCHANGED << mx_answer2, v_rejected >>
    /\ UNCHANGED << driver, headless, fvars, page, clean_seen, cvars, dvars, ivars, gvars >>
    /\ vpc = "rcpt_quit"
    /\ cmds' = Append(cmds, "QUIT")
    /\ \/ smtp' = "closed" /\ v_return(classify_rcpt(v_reply))
       \/ vpc' = "rcpt_failed" /\ smtp' = quit_raised /\ UNCHANGED v_result
    /\ UNCHANGED << top, v_email, mx_answer, mx_domain, v_reply, v_fail >>

\* except Exception: smtp.quit(); return True, "Low"
verify_email_rcpt_failed ==
    /\ UNCHANGED << rvars, xvars, evars, svars, hvars >>
    /\ UNCHANGED << mx_answer2, v_rejected >>
    /\ UNCHANGED << driver, headless, fvars, page, clean_seen, cvars, dvars, ivars, gvars >>
    /\ vpc = "rcpt_failed"
    /\ v_quit_then(Result(TRUE, "Low"))
    /\ UNCHANGED << top, v_email, mx_answer, mx_domain, v_reply, v_fail >>

VInit ==
    /\ vpc = "idle"
    /\ v_email = ""
    /\ mx_answer = "none"
    /\ mx_answer2 = "none"
    /\ mx_domain = "None"
    /\ smtp = "none"
    /\ cmds = << >>
    /\ v_reply = 0
    /\ v_fail = ""
    /\ v_rejected = { }
    /\ v_result = NoResult

\* the caller takes the result; the next call starts afresh
verify_email_return ==
    /\ UNCHANGED << rvars, xvars, evars, svars, hvars >>
    /\ UNCHANGED << driver, headless, fvars, page, clean_seen, cvars, dvars, ivars, gvars >>
    /\ top = "verify"
    /\ vpc = "done"
    /\ top' = "none"
    /\ vpc' = "idle"
    /\ v_email' = ""
    /\ mx_answer' = "none"
    /\ mx_answer2' = "none"
    /\ mx_domain' = "None"
    /\ smtp' = "none"
    /\ cmds' = << >>
    /\ v_reply' = 0
    /\ v_fail' = ""
    /\ v_rejected' = { }
    /\ v_result' = NoResult

-----------------------------------------------------------------------------
(* _initialize_driver, _handle_captcha, _safe_selenium_get                 *)

max_attempts == 3

backoff_factor == 2

RECURSIVE Pow(_, _)
Pow(b, n) == IF n = 0 THEN 1 ELSE b * Pow(b, n - 1)

\* delay = retry_delay_factor ** attempt
retry_delay(attempt) == Pow(backoff_factor, attempt)

\* captcha_indicators of _handle_captcha
captcha_indicators ==
    << "please click here if you are not redirected",
       "click here to continue",
       "i am not a robot",
       "please complete the security check",
       "unusual traffic from your computer network",
       "we need to make sure that you are not a robot",
       "captcha",
       "recaptcha" >>

\* any(indicator in page_source for indicator in captcha_indicators)
captcha_detected(source) ==
    \E i \in 1..Len(captcha_indicators) : Contains(captcha_indicators[i], Lower(source))

\* the test of _safe_selenium_get that sends a page to _handle_captcha
needs_captcha_handling(source) ==
    Contains("captcha", Lower(source)) \/ Contains("please click here", Lower(source))

\* redirect_selectors of _handle_captcha: seven XPath selectors, tried in order
redirect_selectors == 7

\* the pages the browser may show
Pages ==
    { "Search results", "Solve the CAPTCHA", "Unusual traffic from your computer network",
      "Please click here" }

\* the two scans, evaluated once over the pages
pages_detected == { p \in Pages : captcha_detected(p) }

pages_handled == { p \in Pages : needs_captcha_handling(p) }

\* the browser shows page p
show(p) ==
    /\ page' = p
    /\ clean_seen' = (clean_seen \/ p \notin pages_detected)

\* a return statement of _handle_captcha
c_return(b) ==
    /\ cpc' = "done"
    /\ c_result' = b

\* the indicator scan at the top of _handle_captcha
handle_captcha_detect ==
    /\ UNCHANGED << rvars, xvars, evars, svars, hvars >>
    /\ UNCHANGED << dvars, ivars, gvars >>
    /\ cpc = "detect"
    /\ \/ IF page \in pages_detected
             THEN cpc' = "selectors" /\ c_sel' = 1 /\ UNCHANGED c_result
             ELSE c_return(FALSE) /\ UNCHANGED c_sel
       \/ \* reading page_source raises
          c_return(FALSE) /\ UNCHANGED c_sel
    /\ UNCHANGED << top, vvars, driver, headless, fvars, page, clean_seen, frame >>

\* one round of the loop over redirect_selectors
handle_captcha_selector ==
    /\ UNCHANGED << rvars, xvars, evars, svars, hvars >>
    /\ UNCHANGED << dvars, ivars, gvars >>
    /\ cpc = "selectors"
    /\ \/ \* nothing found, or a TimeoutException, NoSuchElementException or
          \* WebDriverException was caught: the next selector
          /\ \E p \in Pages : show(p)
          /\ IF c_sel < redirect_selectors
                THEN c_sel' = c_sel + 1 /\ UNCHANGED cpc
                ELSE cpc' = "iframe" /\ UNCHANGED c_sel
          /\ UNCHANGED c_result
       \/ \* an element was clicked and the page finished loading
          /\ \E p \in Pages : show(p)
          /\ c_return(TRUE)
          /\ UNCHANGED c_sel
       \/ \* any other exception reaches the outer handler
          /\ c_return(FALSE)
          /\ UNCHANGED << c_sel, page, clean_seen >>
    /\ UNCHANGED << top, vvars, driver, headless, fvars, frame >>

\* the reCAPTCHA iframe: find it and switch into it
handle_captcha_iframe ==
    /\ UNCHANGED << rvars, xvars, evars, svars, hvars >>
    /\ UNCHANGED << dvars, ivars, gvars >>
    /\ cpc = "iframe"
    /\ \/ \* no iframe
          cpc' = "manual" /\ UNCHANGED << frame, c_result >>
       \/ \* switch_to.frame(iframes[0])
          cpc' = "checkbox" /\ frame' = "iframe" /\ UNCHANGED c_result
       \/ \* find_elements or switch_to.frame raises: the handler switches back
          cpc' = "manual" /\ frame' = "main" /\ UNCHANGED c_result
       \/ \* and switch_to.default_content() raises in the handler
          c_return(FALSE) /\ UNCHANGED frame
    /\ UNCHANGED << top, vvars, driver, headless, fvars, page, clean_seen, c_sel >>

\* inside the iframe: the checkbox
handle_captcha_checkbox ==
    /\ UNCHANGED << rvars, xvars, evars, svars, hvars >>
    /\ UNCHANGED << dvars, ivars, gvars >>
    /\ cpc = "checkbox"
    /\ \/ \* no checkbox: the try block ends without switching back
          cpc' = "manual" /\ UNCHANGED << frame, c_result, page, clean_seen >>
       \/ \* clicked, switched back, submit button clicked if there is one
          /\ frame' = "main"
          /\ \E p \in Pages : show(p)
          /\ c_return(TRUE)
       \/ \* an exception: the handler switches back
          cpc' = "manual" /\ frame' = "main" /\ UNCHANGED << c_result, page, clean_seen >>
       \/ \* and switch_to.default_content() raises in the handler
          c_return(FALSE) /\ UNCHANGED << frame, page, clean_seen >>
    /\ UNCHANGED << top, vvars, driver, headless, fvars, c_sel >>

\* the wait for manual solving in a visible browser
handle_captcha_manual ==
    /\ UNCHANGED << rvars, xvars, evars, svars, hvars >>
    /\ UNCHANGED << dvars, ivars, gvars >>
    /\ cpc = "manual"
    /\ IF ~headless
          THEN (\E p \in Pages : show(p)) /\ c_return(TRUE)
          ELSE c_return(FALSE) /\ UNCHANGED << page, clean_seen >>
    /\ UNCHANGED << top, vvars, driver, headless, fvars, c_sel, frame >>

\* a return statement of _safe_selenium_get, or an exception leaving it
f_return(r) ==
    /\ fpc' = "done"
    /\ f_result' = r

\* the attempt failed: sleep retry_delay_factor ** attempt, then the next round
f_retry ==
    /\ f_sleeps' = Append(f_sleeps, retry_delay(f_attempt))
    /\ f_failed' = f_failed + 1
    /\ f_attempt' = f_attempt + 1
    /\ fpc' = "loop"

\* _initialize_driver, called at the top of _safe_selenium_get
safe_selenium_get_initialize_driver ==
    /\ UNCHANGED hvars
    /\ UNCHANGED << rvars, xvars, evars, quits >>
    /\ UNCHANGED << dvars, ivars, gvars >>
    /\ fpc = "initialize_driver"
    /\ IF driver # "None"
          THEN fpc' = "loop" /\ UNCHANGED << driver, sessions, f_result >>
          ELSE \/ /\ driver' = "live"
                  /\ sessions' = sessions + 1
                  /\ fpc' = "loop"
                  /\ UNCHANGED f_result
               \/ \* webdriver.Chrome raises: RuntimeError
                  f_return("raise") /\ UNCHANGED << driver, sessions >>
               \/ \* set_page_load_timeout raises: RuntimeError, the driver is set
                  /\ f_return("raise")
                  /\ driver' = "live"
                  /\ sessions' = sessions + 1
    /\ UNCHANGED << top, vvars, headless, f_attempt, f_gets, f_failed, f_sleeps, f_timeout,
                    page, clean_seen, cvars >>

more_attempts_one_too_many(attempt) == attempt <= max_attempts

\* for attempt in range(max_attempts)
more_attempts(attempt) == attempt < max_attempts

safe_selenium_get_loop ==
    /\ UNCHANGED << rvars, xvars, evars, svars, hvars >>
    /\ UNCHANGED << dvars, ivars, gvars >>
    /\ fpc = "loop"
    /\ IF more_attempts(f_attempt)
          THEN fpc' = "get" /\ UNCHANGED f_result
          ELSE f_return("False")
    /\ f_timeout' = FALSE
    /\ UNCHANGED << top, vvars, driver, headless, f_attempt, f_gets, f_failed, f_sleeps,
                    page, clean_seen, cvars >>

\* self.driver.get(url)
safe_selenium_get_get ==
    /\ UNCHANGED << rvars, xvars, evars, svars, hvars >>
    /\ UNCHANGED << dvars, ivars, gvars >>
    /\ fpc = "get"
    /\ f_gets' = f_gets + 1
    /\ \/ /\ \E p \in Pages : show(p)
          /\ fpc' = "wait"
          /\ UNCHANGED << f_attempt, f_failed, f_sleeps, f_timeout >>
       \/ \* an exception reaches the handler of the loop: the TimeoutException
          \* of the page-load timeout (set_page_load_timeout(30)), or another
          /\ f_retry
          /\ f_timeout' \in BOOLEAN
          /\ UNCHANGED << page, clean_seen >>
    /\ UNCHANGED << top, vvars, driver, headless, f_result, cvars >>

\* WebDriverWait(self.driver, 15) for document.readyState
safe_selenium_get_wait ==
    /\ UNCHANGED << rvars, xvars, evars, svars, hvars >>
    /\ UNCHANGED << dvars, ivars, gvars >>
    /\ fpc = "wait"
    /\ \/ \* complete, or a TimeoutException that is passed over
          /\ fpc' = "inspect"
          /\ f_timeout' \in BOOLEAN
          /\ UNCHANGED << f_attempt, f_failed, f_sleeps >>
       \/ \* any other exception
          f_retry /\ UNCHANGED f_timeout
    /\ UNCHANGED << top, vvars, driver, headless, f_gets, f_result, page, clean_seen, cvars >>

\* the CAPTCHA test on page_source
safe_selenium_get_inspect ==
    /\ UNCHANGED << rvars, xvars, evars, svars, hvars >>
    /\ UNCHANGED << dvars, ivars, gvars >>
    /\ fpc = "inspect"
    /\ IF page \in pages_handled
          THEN /\ fpc' = "handle_captcha"
               /\ cpc' = "detect"
               /\ UNCHANGED f_result
          ELSE /\ f_return("True")
               /\ UNCHANGED cpc
    /\ f_timeout' = FALSE
    /\ UNCHANGED << top, vvars, driver, headless, f_attempt, f_gets, f_failed, f_sleeps,
                    page, clean_seen, c_sel, frame, c_result >>

\* if not self._handle_captcha(self.driver): ... continue
safe_selenium_get_handled ==
    /\ UNCHANGED << rvars, xvars, evars, svars, hvars >>
    /\ UNCHANGED << dvars, ivars, gvars >>
    /\ fpc = "handle_captcha"
    /\ cpc = "done"
    /\ cpc' = "idle"
    /\ c_sel' = 0
    /\ c_result' = FALSE
    /\ IF c_result
          THEN f_return("True") /\ UNCHANGED << f_attempt, f_failed, f_sleeps >>
          ELSE f_retry /\ UNCHANGED f_result
    /\ UNCHANGED f_timeout
    /\ UNCHANGED << top, vvars, driver, headless, f_gets, page, clean_seen, frame >>

\* the caller of _safe_selenium_get takes the result
f_reset ==
    /\ fpc' = "idle"
    /\ f_attempt' = 0
    /\ f_gets' = 0
    /\ f_failed' = 0
    /\ f_result' = "none"
    /\ f_sleeps' = << >>
    /\ f_timeout' = FALSE
    /\ page' = ""
    /\ clean_seen' = FALSE

safe_selenium_get_call ==
    /\ UNCHANGED << rvars, xvars, evars, svars, hvars >>
    /\ UNCHANGED << dvars, ivars, gvars >>
    /\ top = "none"
    /\ top' = "fetch"
    /\ fpc' = "initialize_driver"
    /\ UNCHANGED << vvars, driver, headless, f_attempt, f_gets, f_failed, f_result,
                    f_sleeps, f_timeout, page, clean_seen, cvars >>

safe_selenium_get_return ==
    /\ UNCHANGED << rvars, xvars, evars, svars, hvars >>
    /\ UNCHANGED << dvars, ivars, gvars >>
    /\ top = "fetch"
    /\ fpc = "done"
    /\ top' = "none"
    /\ f_reset
    /\ UNCHANGED << vvars, driver, headless, cvars >>

cleanup_keeps_driver ==
    /\ UNCHANGED hvars
    /\ UNCHANGED << rvars, xvars, evars >>
    /\ sessions' = 0
    /\ quits' = 0
    /\ UNCHANGED << dvars, ivars, gvars >>
    /\ top = "none"
    /\ UNCHANGED << driver, frame >>
    /\ UNCHANGED << top, vvars, headless, fvars, page, clean_seen, cpc, c_sel, c_result >>

\* cleanup(): _close_driver; a later driver starts on the main document.
\* It is the last call made on a finder
cleanup ==
    /\ UNCHANGED hvars
    /\ UNCHANGED << rvars, xvars, evars >>
    /\ sessions' = 0
    /\ quits' = 0
    /\ UNCHANGED << dvars, ivars, gvars >>
    /\ top = "none"
    /\ driver' = "None"
    /\ frame' = "main"
    /\ UNCHANGED << top, vvars, headless, fvars, page, clean_seen, cpc, c_sel, c_result >>

FInit ==
    /\ driver = "None"
    /\ headless \in BOOLEAN
    /\ fpc = "idle"
    /\ f_attempt = 0
    /\ f_gets = 0
    /\ f_failed = 0
    /\ f_result = "none"
    /\ f_sleeps = << >>
    /\ f_timeout = FALSE
    /\ page = ""
    /\ clean_seen = FALSE
    /\ cpc = "idle"
    /\ c_sel = 0
    /\ frame = "main"
    /\ c_result = FALSE

-----------------------------------------------------------------------------
(* Python values a routine may return: a str, a list of str, or None       *)

PyStr(s) == [kind |-> "str", str |-> s, list |-> << >>]

PyList(l) == [kind |-> "list", str |-> "", list |-> l]

PyNone == [kind |-> "None", str |-> "", list |-> << >>]

-----------------------------------------------------------------------------
(* DEFAULT_CONFIG and the snippet scan shared by get_company_domain and    *)
(* find_email_format                                                       *)

\* DEFAULT_CONFIG["email_formats"], in the order of the dict
email_formats ==
    << [name |-> "firstinitiallastname@",
        patterns |-> << "flast@", "first initial last name",
                        "first initial followed by last name" >>],
       [name |-> "firstname.lastname@",
        patterns |-> << "first.last@", "first dot last", "firstname dot lastname" >>],
       [name |-> "firstname@",
        patterns |-> << "first@", "firstname only" >>],
       [name |-> "firstinitial.lastname@",
        patterns |-> << "f.last@", "first initial dot last name" >>],
       [name |-> "firstnamelastname@",
        patterns |-> << "firstlast@", "firstname lastname", "first last" >>],
       [name |-> "firstname_lastname@",
        patterns |-> << "first_last@", "firstname underscore lastname" >>],
       [name |-> "lastname.firstname@",
        patterns |-> << "last.first@", "lastname dot firstname" >>],
       [name |-> "lastnameonly@",
        patterns |-> << "last@", "lastname only" >>] >>

\* DEFAULT_CONFIG["default_email_format"]
default_email_format == "firstname.lastname@"

common_formats_alphabetical ==
    << "firstinitiallastname@", "firstname.lastname@", "firstname@",
       "firstname_lastname@", "firstnamelastname@" >>

\* common_formats_to_try
common_formats_to_try ==
    << "firstinitiallastname@", "firstname.lastname@", "firstname@",
       "firstnamelastname@", "firstname_lastname@" >>

\* len(element.text.strip()) > 20
min_snippet_len == 20

\* s.strip()
RECURSIVE LStrip(_)
LStrip(s) == IF s # "" /\ Head(s) = " " THEN LStrip(Tail(s)) ELSE s

RECURSIVE RStrip(_)
RStrip(s) ==
    IF s # "" /\ At(s, Len(s)) = " " THEN RStrip(SubSeq(s, 1, Len(s) - 1)) ELSE s

Strip(s) == RStrip(LStrip(s))

\* the snippets kept: longer than the threshold once stripped, lower-cased
RECURSIVE keep_snippets(_)
keep_snippets(texts) ==
    IF texts = << >> THEN << >>
    ELSE (IF Head(texts) # "" /\ Len(Strip(Head(texts))) > min_snippet_len
             THEN << Lower(Head(texts)) >> ELSE << >>) \o keep_snippets(Tail(texts))

format_name_as_pattern(f, j) == email_formats[f].patterns[j]

\* what `return format_name` returns when pattern j of format f matched
matched_format(f, j) == email_formats[f].name

\* the loops over email_formats and their patterns on one snippet:
\* the format returned, or "" when no pattern is in the snippet
scan_snippet(snippet) ==
    LET hits == { f \in 1..Len(email_formats) :
                     \E j \in 1..Len(email_formats[f].patterns) :
                         Contains(email_formats[f].patterns[j], snippet) }
    IN  IF hits = { } THEN ""
        ELSE LET f == CHOOSE g \in hits : \A h \in hits : g <= h
                 j == CHOOSE k \in 1..Len(email_formats[f].patterns) :
                         /\ Contains(email_formats[f].patterns[k], snippet)
                         /\ \A l \in 1..(k - 1) :
                               ~Contains(email_formats[f].patterns[l], snippet)
             IN  matched_format(f, j)

\* the loop over the snippets: the first format found, or ""
RECURSIVE scan_snippets(_)
scan_snippets(snippets) ==
    IF snippets = << >> THEN ""
    ELSE IF scan_snippet(Head(snippets)) # "" THEN scan_snippet(Head(snippets))
    ELSE scan_snippets(Tail(snippets))

\* for selector in ['div.VwiC3b', 'div.aCOpRe', 'span.aCOpRe', 'div.s3v9rd', 'div.Z26q7c']
snippet_selectors ==
    << "div.VwiC3b", "div.aCOpRe", "span.aCOpRe", "div.s3v9rd", "div.Z26q7c" >>

\* soup.select(selector): the texts of the elements of the page the selector
\* selects, in the order of the page
RECURSIVE soup_select(_, _)
soup_select(source, selector) ==
    IF source = << >> THEN << >>
    ELSE (IF Head(source).selector = selector THEN << Head(source).text >> ELSE << >>)
            \o soup_select(Tail(source), selector)

\* the loop over the selectors, from selector k on: the list `snippets`
RECURSIVE collect_snippets(_, _)
collect_snippets(source, k) ==
    IF k > Len(snippet_selectors) THEN << >>
    ELSE keep_snippets(soup_select(source, snippet_selectors[k]))
            \o collect_snippets(source, k + 1)

\* the result elements a search page may carry: what selects them, their text
PageElements ==
    { [selector |-> "div.aCOpRe",  text |-> "The usual address is flast@acme.com"],
      [selector |-> "span.aCOpRe", text |-> "  first_last@acme.com   "],
      [selector |-> "div.VwiC3b",  text |-> "first@ or first.last@ are both in use"],
      [selector |-> "div.s3v9rd",  text |-> "Acme Corp makes anvils in Ohio"] }

MaxSnippets == 2

\* sequences over S of length at most n
SeqsUpTo(S, n) == UNION { [1..k -> S] : k \in 0..n }

\* the pages a search returns
PageSources == SeqsUpTo(PageElements, MaxSnippets)

\* text that holds no pattern of any format
neutral_text == "our staff addresses use "

\* the pages of one result element whose text is one pattern of one format,
\* made longer than the threshold with neutral text
PatternSources ==
    UNION { { << [selector |-> snippet_selectors[k],
                  text |-> neutral_text \o email_formats[f].patterns[j]] >> :
                k \in 1..Len(snippet_selectors),
                j \in 1..Len(email_formats[f].patterns) } :
            f \in 1..Len(email_formats) }

\* the format the scan of a page returns, or "" (evaluated once)
scan_of ==
    [source \in PageSources \cup PatternSources |->
        scan_snippets(collect_snippets(source, 1))]

\* what the scan can return over the snippets of a page
scan_outcomes == { scan_of[source] : source \in PageSources }

-----------------------------------------------------------------------------
(* get_company_domain                                                      *)

\* s.replace(' ', '')
RECURSIVE RemoveSpaces(_)
RemoveSpaces(s) ==
    IF s = "" THEN ""
    ELSE (IF Head(s) = " " THEN "" ELSE Head(s)) \o RemoveSpaces(Tail(s))

direct_guess_spaces_kept(company_name) == Strip(Lower(company_name)) \o ".com"

\* domain = f"{clean_company.replace(' ', '')}.com"
direct_guess(company_name) == RemoveSpaces(Strip(Lower(company_name))) \o ".com"

\* the first index of a character of set cs in s, or Len(s) + 1
FirstOf(cs, s) ==
    IF \E i \in 1..Len(s) : At(s, i) \in cs
       THEN CHOOSE i \in 1..Len(s) :
               At(s, i) \in cs /\ \A k \in 1..(i - 1) : At(s, k) \notin cs
       ELSE Len(s) + 1

\* urlparse(url).netloc
url_netloc(url) ==
    LET colon == FirstOf({ ":" }, url)
        slash == FirstOf({ "/", "?", "#" }, url)
        rest  == IF 1 < colon /\ colon < slash
                    THEN SubSeq(url, colon + 1, Len(url)) ELSE url
    IN  IF Len(rest) >= 2 /\ SubSeq(rest, 1, 2) = "//"
           THEN LET body == SubSeq(rest, 3, Len(rest))
                IN  SubSeq(body, 1, FirstOf({ "/", "?", "#" }, body) - 1)
           ELSE ""

\* if domain.startswith('www.'): domain = domain[4:]
strip_www(netloc) ==
    IF Len(netloc) >= 4 /\ SubSeq(netloc, 1, 4) = "www."
       THEN SubSeq(netloc, 5, Len(netloc)) ELSE netloc

\* for result in results[:3]
top_results == 3

\* the loop over the top results: the domain returned, or "" when no link
\* has a host with a dot in it
RECURSIVE first_host(_, _)
first_host(links, n) ==
    IF links = << >> \/ n = 0 THEN ""
    ELSE IF url_netloc(Head(links)) # "" /\ Contains(".", url_netloc(Head(links)))
            THEN strip_www(url_netloc(Head(links)))
    ELSE first_host(Tail(links), n - 1)

\* the hrefs of the result links a search page may carry
ResultLinks ==
    { "https://www.acme.com/about", "https://acme.io", "/search?q=acme",
      "http://localhost/" }

MaxResults == 4

ResultLists == SeqsUpTo(ResultLinks, MaxResults)

\* what the link loop can return over the links of a page (evaluated once)
host_outcomes == { first_host(links, top_results) : links \in ResultLists }

\* the company names get_company_domain is called with
Companies == { "Acme", " Big Corp" }

\* a return statement of get_company_domain
d_return(v) ==
    /\ dpc' = "done"
    /\ d_result' = v

\* a caller starts _safe_selenium_get
f_start == fpc' = "initialize_driver"

get_company_domain_call(company_name) ==
    /\ UNCHANGED << rvars, xvars, evars, svars, hvars >>
    /\ UNCHANGED << ivars, gvars >>
    /\ top = "none"
    /\ top' = "resolve"
    /\ dpc' = "dns"
    /\ d_company' = company_name
    /\ UNCHANGED << d_domain, d_result, d_answer >>
    /\ UNCHANGED << vvars, driver, headless, fvars, page, clean_seen, cvars >>

\* the direct guess and its DNS check
get_company_domain_dns ==
    /\ UNCHANGED << rvars, xvars, evars, svars, hvars >>
    /\ UNCHANGED << ivars, gvars >>
    /\ dpc = "dns"
    /\ d_domain' = direct_guess(d_company)
    /\ \/ \* the answer has records
          d_return(PyStr(direct_guess(d_company))) /\ d_answer' = "records"
       \/ \* no records, or the lookup raised
          dpc' = "search" /\ d_answer' = "empty" /\ UNCHANGED d_result
    /\ UNCHANGED << top, d_company >>
    /\ UNCHANGED << vvars, driver, headless, fvars, page, clean_seen, cvars >>

\* if self._safe_selenium_get(search_url):
get_company_domain_search ==
    /\ UNCHANGED << rvars, xvars, evars, svars, hvars >>
    /\ UNCHANGED << ivars, gvars >>
    /\ dpc = "search"
    /\ dpc' = "results"
    /\ f_start
    /\ UNCHANGED << top, d_company, d_domain, d_result, d_answer >>
    /\ UNCHANGED << vvars, driver, headless, f_attempt, f_gets, f_failed, f_result,
                    f_sleeps, f_timeout, page, clean_seen, cvars >>

\* the first search returned: the loop over the top result links
get_company_domain_results ==
    /\ UNCHANGED << rvars, xvars, evars, svars, hvars >>
    /\ UNCHANGED << ivars, gvars >>
    /\ dpc = "results"
    /\ fpc = "done"
    /\ f_reset
    /\ CASE f_result = "raise" -> d_return(PyStr(default_email_format))
         [] f_result = "False" -> dpc' = "search2" /\ UNCHANGED d_result
         [] f_result = "True" ->
               \/ \* the wait for the results or the parse raised
                  dpc' = "search2" /\ UNCHANGED d_result
               \/ \E host \in host_outcomes :
                     IF host # ""
                        THEN d_return(PyStr(host))
                        ELSE dpc' = "search2" /\ UNCHANGED d_result
    /\ UNCHANGED << top, d_company, d_domain, d_answer >>
    /\ UNCHANGED << vvars, driver, headless, cvars >>

\* if self._safe_selenium_get(search_url2):
get_company_domain_search2 ==
    /\ UNCHANGED << rvars, xvars, evars, svars, hvars >>
    /\ UNCHANGED << ivars, gvars >>
    /\ dpc = "search2"
    /\ dpc' = "snippets"
    /\ f_start
    /\ UNCHANGED << top, d_company, d_domain, d_result, d_answer >>
    /\ UNCHANGED << vvars, driver, headless, f_attempt, f_gets, f_failed, f_result,
                    f_sleeps, f_timeout, page, clean_seen, cvars >>

\* the second search returned: the snippet scan, then common_formats_to_try
get_company_domain_snippets ==
    /\ UNCHANGED << rvars, xvars, evars, svars, hvars >>
    /\ UNCHANGED << ivars, gvars >>
    /\ dpc = "snippets"
    /\ fpc = "done"
    /\ f_reset
    /\ CASE f_result = "raise" -> d_return(PyStr(default_email_format))
         [] f_result = "False" -> d_return(PyList(common_formats_to_try))
         [] f_result = "True" ->
               \/ \* the wait for the results or the parse raised
                  d_return(PyList(common_formats_to_try))
               \/ \E format_name \in scan_outcomes :
                     IF format_name # ""
                        THEN d_return(PyStr(format_name))
                        ELSE d_return(PyList(common_formats_to_try))
    /\ UNCHANGED << top, d_company, d_domain, d_answer >>
    /\ UNCHANGED << vvars, driver, headless, cvars >>

get_company_domain_return ==
    /\ UNCHANGED << rvars, xvars, evars, svars, hvars >>
    /\ UNCHANGED << ivars, gvars >>
    /\ top = "resolve"
    /\ dpc = "done"
    /\ top' = "none"
    /\ dpc' = "idle"
    /\ d_company' = ""
    /\ d_domain' = ""
    /\ d_result' = PyNone
    /\ d_answer' = "none"
    /\ UNCHANGED << vvars, driver, headless, fvars, page, clean_seen, cvars >>

DInit ==
    /\ dpc = "idle"
    /\ d_company = ""
    /\ d_domain = ""
    /\ d_result = PyNone
    /\ d_answer = "none"

-----------------------------------------------------------------------------
(* find_email_format                                                       *)

\* a return statement of find_email_format
i_return(v) ==
    /\ ipc' = "done"
    /\ i_result' = v

i_except_missing ==
    /\ ipc' = "raised"
    /\ i_raised' = TRUE
    /\ UNCHANGED i_result

\* except Exception as e: ... return self.config["default_email_format"]
i_except ==
    /\ i_return(PyStr(default_email_format))
    /\ i_raised' = TRUE

\* the company domains find_email_format is called with: a domain, or the
\* list get_company_domain returns when both of its searches found nothing
InferDomains == { PyStr("acme.com"), PyList(common_formats_to_try) }

find_email_format_call(company_domain) ==
    /\ UNCHANGED << rvars, xvars, evars, svars, hvars >>
    /\ top = "none"
    /\ top' = "infer"
    /\ ipc' = "split"
    /\ i_domain' = company_domain
    /\ UNCHANGED << i_result, i_matched, i_raised, i_source >>
    /\ UNCHANGED << vvars, driver, headless, fvars, page, clean_seen, cvars, dvars, gvars >>

\* company_name = company_domain.split('.')[0]; a value that is no str raises
find_email_format_split ==
    /\ UNCHANGED << rvars, xvars, evars, svars, hvars >>
    /\ ipc = "split"
    /\ IF i_domain.kind = "str"
          THEN ipc' = "search" /\ UNCHANGED << i_result, i_raised >>
          ELSE i_except
    /\ UNCHANGED << top, i_domain, i_matched, i_source >>
    /\ UNCHANGED << vvars, driver, headless, fvars, page, clean_seen, cvars, dvars, gvars >>

\* if self._safe_selenium_get(search_url):
find_email_format_search ==
    /\ UNCHANGED << rvars, xvars, evars, svars, hvars >>
    /\ ipc = "search"
    /\ ipc' = "snippets"
    /\ f_start
    /\ UNCHANGED << top, i_domain, i_result, i_matched, i_raised, i_source >>
    /\ UNCHANGED << vvars, driver, headless, f_attempt, f_gets, f_failed, f_result,
                    f_sleeps, f_timeout, page, clean_seen, cvars, dvars, gvars >>

\* the first search returned: the wait for the results and the parse
find_email_format_snippets ==
    /\ UNCHANGED << rvars, xvars, evars, svars, hvars >>
    /\ ipc = "snippets"
    /\ fpc = "done"
    /\ f_reset
    /\ CASE f_result = "raise" ->
               i_except /\ UNCHANGED << i_matched, i_source >>
         [] f_result = "False" ->
               ipc' = "search2" /\ UNCHANGED << i_result, i_matched, i_raised, i_source >>
         [] f_result = "True" ->
               \/ \* the wait for the results or the parse raised
                  ipc' = "search2" /\ UNCHANGED << i_result, i_matched, i_raised, i_source >>
               \/ \E source \in PageSources :
                     /\ ipc' = "scan"
                     /\ i_source' = << source >>
                     /\ UNCHANGED << i_result, i_matched, i_raised >>
    /\ UNCHANGED << top, i_domain >>
    /\ UNCHANGED << vvars, driver, headless, cvars, dvars, gvars >>

\* the loops over the selectors, the snippets, the formats and the patterns
\* on the page of the first search
find_email_format_scan ==
    /\ UNCHANGED << rvars, xvars, evars, svars, hvars >>
    /\ ipc = "scan"
    /\ LET format_name == scan_of[i_source[1]]
       IN  IF format_name # ""
              THEN /\ i_return(PyStr(format_name))
                   /\ i_matched' = TRUE
              ELSE /\ ipc' = "search2"
                   /\ UNCHANGED << i_result, i_matched >>
    /\ UNCHANGED << top, i_domain, i_raised, i_source >>
    /\ UNCHANGED << vvars, driver, headless, fvars, page, clean_seen, cvars, dvars, gvars >>

\* if self._safe_selenium_get(search_url2):
find_email_format_search2 ==
    /\ UNCHANGED << rvars, xvars, evars, svars, hvars >>
    /\ ipc = "search2"
    /\ ipc' = "snippets2"
    /\ f_start
    /\ i_source' = << >>
    /\ UNCHANGED << top, i_domain, i_result, i_matched, i_raised >>
    /\ UNCHANGED << vvars, driver, headless, f_attempt, f_gets, f_failed, f_result,
                    f_sleeps, f_timeout, page, clean_seen, cvars, dvars, gvars >>

\* the second search returned: the wait for the results and the parse, then
\* common_formats_to_try
find_email_format_snippets2 ==
    /\ UNCHANGED << rvars, xvars, evars, svars, hvars >>
    /\ ipc = "snippets2"
    /\ fpc = "done"
    /\ f_reset
    /\ CASE f_result = "raise" ->
               i_except /\ UNCHANGED << i_matched, i_source >>
         [] f_result = "False" ->
               /\ i_return(PyList(common_formats_to_try))
               /\ UNCHANGED << i_matched, i_raised, i_source >>
         [] f_result = "True" ->
               \/ \* the wait for the results or the parse raised
                  /\ i_return(PyList(common_formats_to_try))
                  /\ UNCHANGED << i_matched, i_raised, i_source >>
               \/ \E source \in PageSources :
                     /\ ipc' = "scan2"
                     /\ i_source' = << source >>
                     /\ UNCHANGED << i_result, i_matched, i_raised >>
    /\ UNCHANGED << top, i_domain >>
    /\ UNCHANGED << vvars, driver, headless, cvars, dvars, gvars >>

\* the same loops on the page of the second search, then common_formats_to_try
find_email_format_scan2 ==
    /\ UNCHANGED << rvars, xvars, evars, svars, hvars >>
    /\ ipc = "scan2"
    /\ LET format_name == scan_of[i_source[1]]
       IN  IF format_name # ""
              THEN /\ i_return(PyStr(format_name))
                   /\ i_matched' = TRUE
              ELSE /\ i_return(PyList(common_formats_to_try))
                   /\ UNCHANGED i_matched
    /\ UNCHANGED << top, i_domain, i_raised, i_source >>
    /\ UNCHANGED << vvars, driver, headless, fvars, page, clean_seen, cvars, dvars, gvars >>

\* the caller of find_email_format takes the result
i_reset ==
    /\ ipc' = "idle"
    /\ i_domain' = PyNone
    /\ i_result' = PyNone
    /\ i_matched' = FALSE
    /\ i_raised' = FALSE
    /\ i_source' = << >>

\* find_email_format returned, or raised to its caller
find_email_format_return ==
    /\ UNCHANGED << rvars, xvars, evars, svars, hvars >>
    /\ top = "infer"
    /\ ipc \in { "done", "raised" }
    /\ top' = "none"
    /\ i_reset
    /\ UNCHANGED << vvars, driver, headless, fvars, page, clean_seen, cvars, dvars, gvars >>

IInit ==
    /\ ipc = "idle"
    /\ i_domain = PyNone
    /\ i_result = PyNone
    /\ i_matched = FALSE
    /\ i_raised = FALSE
    /\ i_source = << >>

-----------------------------------------------------------------------------
(* generate_email_patterns                                                 *)

\* s.split(): the words of s
RECURSIVE Split(_)
Split(s) ==
    LET t == LStrip(s)
        n == FirstOf({ " " }, t)
    IN  IF t = "" THEN << >>
        ELSE << SubSeq(t, 1, n - 1) >> \o Split(SubSeq(t, n, Len(t)))

\* ", ".join(repr(x) for x in l)
RECURSIVE JoinRepr(_)
JoinRepr(l) ==
    IF l = << >> THEN ""
    ELSE "'" \o Head(l) \o "'" \o (IF Len(l) > 1 THEN ", " ELSE "") \o JoinRepr(Tail(l))

\* f"{v}"
PyFormat(v) ==
    CASE v.kind = "str" -> v.str
      [] v.kind = "list" -> "[" \o JoinRepr(v.list) \o "]"
      [] OTHER -> "None"

\* bool(v)
truthy(v) ==
    CASE v.kind = "str" -> v.str # ""
      [] v.kind = "list" -> v.list # << >>
      [] OTHER -> FALSE

company_domain_always(company_domain) == TRUE

\* if profile_info.get('company_domain'):
has_company_domain(company_domain) == truthy(company_domain)

name_components_as_given(first, last) == << Lower(first), Lower(last) >>

\* first_name and last_name as lines 575-585 leave them; << >> stands for
\* the early return of an empty list
name_components(first, last) ==
    LET name == first \o " " \o last
    IN  IF Lower(first) # "" /\ Lower(last) # ""
           THEN << Lower(first), Lower(last) >>
        ELSE IF Len(Split(name)) < 2 THEN << >>
        ELSE << Lower(Split(name)[1]), Lower(Split(name)[Len(Split(name))]) >>

\* the six common patterns for the company domain
company_patterns(first_name, last_name, domain) ==
    << At(first_name, 1) \o last_name \o "@" \o domain,
       first_name \o "@" \o domain,
       first_name \o "." \o last_name \o "@" \o domain,
       first_name \o "_" \o last_name \o "@" \o domain,
       first_name \o last_name \o "@" \o domain,
       At(first_name, 1) \o "." \o last_name \o "@" \o domain >>

format_pattern_first_dot_last(format_type, first_name, last_name, domain) ==
    << first_name \o "." \o last_name \o "@" \o domain >>

\* the if/elif chain on one format: the address appended, if any
format_pattern(format_type, first_name, last_name, domain) ==
    CASE format_type = "firstname@" ->
            << first_name \o "@" \o domain >>
      [] format_type = "firstname.lastname@" ->
            << first_name \o "." \o last_name \o "@" \o domain >>
      [] format_type \in { "firstinitial.lastname@", "f.lastname@" } ->
            << At(first_name, 1) \o "." \o last_name \o "@" \o domain >>
      [] format_type = "firstnamelastname@" ->
            << first_name \o last_name \o "@" \o domain >>
      [] format_type = "firstname_lastname@" ->
            << first_name \o "_" \o last_name \o "@" \o domain >>
      [] format_type = "firstinitiallastname@" ->
            << At(first_name, 1) \o last_name \o "@" \o domain >>
      [] format_type = "lastname.firstname@" ->
            << last_name \o "." \o first_name \o "@" \o domain >>
      [] format_type = "lastnameonly@" ->
            << last_name \o "@" \o domain >>
      [] OTHER -> << >>

RECURSIVE format_patterns(_, _, _, _)
format_patterns(formats, first_name, last_name, domain) ==
    IF formats = << >> THEN << >>
    ELSE format_pattern(Head(formats), first_name, last_name, domain)
            \o format_patterns(Tail(formats), first_name, last_name, domain)

\* the patterns for the company domain, given what find_email_format returned
domain_patterns_for(email_format, first_name, last_name, domain) ==
    IF email_format.kind = "list"
       THEN format_patterns(email_format.list, first_name, last_name, domain)
    ELSE IF truthy(email_format)
       THEN IF format_pattern(email_format.str, first_name, last_name, domain) # << >>
               THEN format_pattern(email_format.str, first_name, last_name, domain)
               ELSE company_patterns(first_name, last_name, domain)
    ELSE company_patterns(first_name, last_name, domain)

domain_patterns_eight(first_name, last_name, domain) ==
    << At(first_name, 1) \o last_name \o "@" \o domain,
       first_name \o "@" \o domain,
       last_name \o "@" \o domain,
       first_name \o "." \o last_name \o "@" \o domain,
       first_name \o "_" \o last_name \o "@" \o domain,
       first_name \o last_name \o "@" \o domain,
       first_name \o At(last_name, 1) \o "@" \o domain,
       last_name \o "." \o first_name \o "@" \o domain >>

\* the seven patterns for one additional domain
domain_patterns(first_name, last_name, domain) ==
    << At(first_name, 1) \o last_name \o "@" \o domain,
       first_name \o "@" \o domain,
       last_name \o "@" \o domain,
       first_name \o "." \o last_name \o "@" \o domain,
       first_name \o "_" \o last_name \o "@" \o domain,
       first_name \o last_name \o "@" \o domain,
       At(first_name, 1) \o "." \o last_name \o "@" \o domain >>

RECURSIVE additional_patterns_reversed(_, _, _)
additional_patterns_reversed(domains, first_name, last_name) ==
    IF domains = << >> THEN << >>
    ELSE additional_patterns_reversed(Tail(domains), first_name, last_name)
            \o domain_patterns(first_name, last_name, Head(domains))

RECURSIVE additional_patterns(_, _, _)
additional_patterns(domains, first_name, last_name) ==
    IF domains = << >> THEN << >>
    ELSE domain_patterns(first_name, last_name, Head(domains))
            \o additional_patterns(Tail(domains), first_name, last_name)

\* whether line 598-669 evaluate first_name[0]
uses_initial(company_domain, email_format, domains) ==
    \/ domains # << >>
    \/ /\ has_company_domain(company_domain)
       /\ IF email_format.kind = "list"
             THEN \E k \in 1..Len(email_format.list) :
                     email_format.list[k] \in { "firstinitial.lastname@", "f.lastname@",
                                                "firstinitiallastname@" }
             ELSE email_format.str \notin { "firstname@", "firstname.lastname@",
                                            "firstnamelastname@", "firstname_lastname@",
                                            "lastname.firstname@", "lastnameonly@" }

\* first_name[0] raises IndexError on the empty string
index_error(first_name, company_domain, email_format, domains) ==
    first_name = "" /\ uses_initial(company_domain, email_format, domains)

\* the inputs of generate_email_patterns
FirstNames == { "John", "j@x", "", "J" }

LastNames == { "Smith", "", "S" }

\* profile_info['company_domain']: absent, a domain, or the list
\* get_company_domain returns when both of its searches found nothing
ProfileDomains == { PyNone, PyStr("acme.com"), PyList(common_formats_to_try) }

AdditionalDomains == { "example.org" }

MaxDomains == 1

DomainLists == SeqsUpTo(AdditionalDomains, MaxDomains)

\* a return statement of generate_email_patterns
g_return(l) ==
    /\ gpc' = "done"
    /\ g_patterns' = l

generate_email_patterns_call(first, last, company_domain, domains) ==
    /\ UNCHANGED << rvars, xvars, evars, svars, hvars >>
    /\ top = "none"
    /\ top' = "generate"
    /\ gpc' = "names"
    /\ g_first' = first
    /\ g_last' = last
    /\ g_company_domain' = company_domain
    /\ g_domains' = domains
    /\ g_driver0' = driver
    /\ UNCHANGED << g_email_format, g_patterns >>
    /\ UNCHANGED << vvars, driver, headless, fvars, page, clean_seen, cvars, dvars, ivars >>

\* the name components, then find_email_format if there is a company domain
generate_email_patterns_names ==
    /\ UNCHANGED << rvars, xvars, evars, svars, hvars >>
    /\ gpc = "names"
    /\ IF name_components(g_first, g_last) = << >>
          THEN g_return(<< >>) /\ UNCHANGED << ipc, i_domain >>
       ELSE IF has_company_domain(g_company_domain)
          THEN /\ gpc' = "format"
               /\ ipc' = "split"
               /\ i_domain' = g_company_domain
               /\ UNCHANGED g_patterns
       ELSE gpc' = "patterns" /\ UNCHANGED << g_patterns, ipc, i_domain >>
    /\ UNCHANGED << top, g_first, g_last, g_company_domain, g_domains, g_driver0,
                    g_email_format, i_result, i_matched, i_raised, i_source >>
    /\ UNCHANGED << vvars, driver, headless, fvars, page, clean_seen, cvars, dvars >>

\* email_format = self.find_email_format(company_domain)
generate_email_patterns_format ==
    /\ UNCHANGED << rvars, xvars, evars, svars, hvars >>
    /\ gpc = "format"
    /\ ipc \in { "done", "raised" }
    /\ i_reset
    /\ IF ipc = "raised"
          THEN gpc' = "raised" /\ UNCHANGED g_email_format
          ELSE gpc' = "patterns" /\ g_email_format' = i_result
    /\ UNCHANGED << top, g_first, g_last, g_company_domain, g_domains, g_driver0, g_patterns >>
    /\ UNCHANGED << vvars, driver, headless, fvars, page, clean_seen, cvars, dvars >>

\* the patterns for the company domain, then for each additional domain
generate_email_patterns_patterns ==
    /\ UNCHANGED << rvars, xvars, evars, svars, hvars >>
    /\ gpc = "patterns"
    /\ LET names == name_components(g_first, g_last)
       IN  IF index_error(names[1], g_company_domain, g_email_format, g_domains)
              THEN gpc' = "raised" /\ UNCHANGED g_patterns
              ELSE g_return(
                      (IF has_company_domain(g_company_domain)
                          THEN domain_patterns_for(g_email_format, names[1], names[2],
                                                   PyFormat(g_company_domain))
                          ELSE << >>)
                      \o additional_patterns(g_domains, names[1], names[2]))
    /\ UNCHANGED << top, g_first, g_last, g_company_domain, g_domains, g_driver0,
                    g_email_format >>
    /\ UNCHANGED << vvars, driver, headless, fvars, page, clean_seen, cvars, dvars, ivars >>

\* generate_email_patterns returned, or raised to its caller
generate_email_patterns_return ==
    /\ UNCHANGED << rvars, xvars, evars, svars, hvars >>
    /\ top = "generate"
    /\ gpc \in { "done", "raised" }
    /\ top' = "none"
    /\ gpc' = "idle"
    /\ g_first' = ""
    /\ g_last' = ""
    /\ g_company_domain' = PyNone
    /\ g_domains' = << >>
    /\ g_driver0' = "None"
    /\ g_email_format' = PyNone
    /\ g_patterns' = << >>
    /\ UNCHANGED << vvars, driver, headless, fvars, page, clean_seen, cvars, dvars, ivars >>

GInit ==
    /\ gpc = "idle"
    /\ g_first = ""
    /\ g_last = ""
    /\ g_company_domain = PyNone
    /\ g_domains = << >>
    /\ g_driver0 = "None"
    /\ g_email_format = PyNone
    /\ g_patterns = << >>

-----------------------------------------------------------------------------
(* extract_profile_info, find_emails and the request handlers: main() of   *)
(* email_finder.py, index() and api_find_emails() of app.py                *)

\* profile_info: {} or a dict with the company domain
NoProfile == [info |-> FALSE, company_domain |-> PyNone]

Profile(company_domain) == [info |-> TRUE, company_domain |-> company_domain]

close_driver_skipped ==
    UNCHANGED << driver, frame, quits >>

\* _close_driver(): quit the driver if there is one
close_driver ==
    /\ driver' = "None"
    /\ frame' = "main"
    /\ quits' = IF driver # "None" THEN quits + 1 ELSE quits

\* a caller starts extract_profile_info, which calls get_company_domain
x_start ==
    /\ xpc' = "domain"
    /\ dpc' = "dns"
    /\ d_company' = r_company
    /\ r_resolutions' = r_resolutions + 1

x_reset ==
    /\ xpc' = "idle"
    /\ x_result' = NoProfile

d_reset ==
    /\ dpc' = "idle"
    /\ d_company' = ""
    /\ d_domain' = ""
    /\ d_result' = PyNone
    /\ d_answer' = "none"

g_reset ==
    /\ gpc' = "idle"
    /\ g_first' = ""
    /\ g_last' = ""
    /\ g_company_domain' = PyNone
    /\ g_domains' = << >>
    /\ g_driver0' = "None"
    /\ g_email_format' = PyNone
    /\ g_patterns' = << >>

c_reset ==
    /\ cpc' = "idle"
    /\ c_sel' = 0
    /\ c_result' = FALSE

e_reset ==
    /\ epc' = "idle"
    /\ e_possible' = << >>
    /\ e_index' = 0
    /\ e_verified' = << >>
    /\ e_dropped' = << >>
    /\ e_result' = << >>

\* company_domain = self.get_company_domain(company); return profile_info
extract_profile_info_return ==
    /\ UNCHANGED hvars
    /\ xpc = "domain"
    /\ dpc = "done"
    /\ xpc' = "done"
    /\ x_result' = Profile(d_result)
    /\ d_reset
    /\ UNCHANGED << top, vvars, driver, headless, fvars, page, clean_seen, cvars, ivars,
                    gvars, rvars, evars, svars >>

\* the results verify_email gives for an address that passes the format check
probe_outcomes ==
    { Result(FALSE, "No MX records"), Result(FALSE, "No MX domain"),
      Result(FALSE, "Connection failed"), Result(FALSE, "HELO failed"),
      Result(FALSE, "MAIL FROM failed"), Result(TRUE, "High"),
      Result(FALSE, "Invalid"), Result(TRUE, "Medium"), Result(TRUE, "Low") }

\* the values get_company_domain returns
resolve_outcomes(company_name) ==
    { PyStr(direct_guess(company_name)), PyStr(default_email_format),
      PyList(common_formats_to_try) }
        \cup { PyStr(host) : host \in host_outcomes \ { "" } }
        \cup { PyStr(format_name) : format_name \in scan_outcomes \ { "" } }

\* the requests: first_name, last_name, company, additional_domains
Requests ==
    { [first_name |-> "John", last_name |-> "Smith", company |-> "Acme",
       additional_domains |-> << >>],
      [first_name |-> "", last_name |-> "Smith", company |-> "Acme",
       additional_domains |-> << "example.org" >>] }

Range(l) == { l[k] : k \in 1..Len(l) }

\* the addresses generate_email_patterns can give for the requests, and
\* those among them that pass the format check of verify_email
request_candidates ==
    UNION { Range(domain_patterns_for(email_format,
                                      name_components(r.first_name, r.last_name)[1],
                                      name_components(r.first_name, r.last_name)[2],
                                      PyFormat(company_domain))) :
              r \in { q \in Requests : name_components(q.first_name, q.last_name) # << >> },
              company_domain \in resolve_outcomes("Acme"),
              email_format \in { PyStr(email_formats[k].name) : k \in 1..Len(email_formats) }
                                  \cup { PyList(common_formats_to_try) } }

candidates_matching == { c \in request_candidates : email_regex_match(c) }

passes_format_check(email) ==
    IF email \in request_candidates THEN email \in candidates_matching
    ELSE email_regex_match(email)

\* what verify_email(email) may return
verify_outcomes(email) ==
    IF passes_format_check(email) THEN probe_outcomes
    ELSE { Result(FALSE, "Invalid format") }

confidence_key_medium_first(confidence) ==
    IF confidence = "Medium" THEN 0 ELSE IF confidence = "High" THEN 1 ELSE 2

\* key=lambda x: 0 if x['confidence'] == 'High' else (1 if ... == 'Medium' else 2)
confidence_key(confidence) ==
    IF confidence = "High" THEN 0 ELSE IF confidence = "Medium" THEN 1 ELSE 2

\* list.sort is stable: x goes behind every entry whose key is not greater
insert_by_key(sorted, x) ==
    LET p == Cardinality({ k \in 1..Len(sorted) :
                             confidence_key(sorted[k].confidence)
                                 <= confidence_key(x.confidence) })
    IN  SubSeq(sorted, 1, p) \o << x >> \o SubSeq(sorted, p + 1, Len(sorted))

\* verified_emails.sort(key=...)
RECURSIVE sort_by_confidence(_)
sort_by_confidence(l) ==
    IF l = << >> THEN << >>
    ELSE insert_by_key(sort_by_confidence(SubSeq(l, 1, Len(l) - 1)), l[Len(l)])

keep_all(is_valid) == TRUE

\* if is_valid:
keep_candidate(is_valid) == is_valid

\* a return statement of find_emails
e_return(l) ==
    /\ epc' = "done"
    /\ e_result' = l

\* a caller starts find_emails, which calls extract_profile_info
e_start ==
    /\ epc' = "profile"
    /\ x_start

\* profile_info = self.extract_profile_info(...); the empty dict returns []
\* else generate_email_patterns(profile_info, domains) is called
find_emails_profile ==
    /\ UNCHANGED hvars
    /\ epc = "profile"
    /\ xpc = "done"
    /\ x_reset
    /\ IF ~x_result.info
          THEN /\ e_return(<< >>)
               /\ UNCHANGED gvars
          ELSE /\ epc' = "generate"
               /\ gpc' = "names"
               /\ g_first' = r_first
               /\ g_last' = r_last
               /\ g_company_domain' = x_result.company_domain
               /\ g_domains' = r_additional
               /\ g_driver0' = driver
               /\ UNCHANGED << g_email_format, g_patterns, e_result >>
    /\ UNCHANGED << e_possible, e_index, e_verified, e_dropped >>
    /\ UNCHANGED << top, vvars, driver, headless, fvars, page, clean_seen, cvars, dvars,
                    ivars, rvars, svars >>

\* possible_emails = self.generate_email_patterns(profile_info, domains)
find_emails_generated ==
    /\ UNCHANGED hvars
    /\ epc = "generate"
    /\ gpc \in { "done", "raised" }
    /\ IF gpc = "raised"
          THEN epc' = "raised" /\ UNCHANGED << e_possible, e_index >>
          ELSE /\ epc' = "verify"
               /\ e_possible' = g_patterns
               /\ e_index' = 1
    /\ g_reset
    /\ UNCHANGED << e_verified, e_dropped, e_result >>
    /\ UNCHANGED << top, vvars, driver, headless, fvars, page, clean_seen, cvars, dvars,
                    ivars, rvars, xvars, svars >>

\* one round of the loop over possible_emails
find_emails_verify ==
    /\ UNCHANGED hvars
    /\ epc = "verify"
    /\ e_index <= Len(e_possible)
    /\ \E r \in verify_outcomes(e_possible[e_index]) :
          IF keep_candidate(r.is_valid)
             THEN /\ e_verified' = Append(e_verified, [email |-> e_possible[e_index],
                                                       confidence |-> r.confidence,
                                                       source |-> "pattern_matching"])
                  /\ UNCHANGED e_dropped
             ELSE /\ e_dropped' = Append(e_dropped, e_possible[e_index])
                  /\ UNCHANGED e_verified
    /\ e_index' = e_index + 1
    /\ UNCHANGED << epc, e_possible, e_result >>
    /\ UNCHANGED << top, vvars, driver, headless, fvars, page, clean_seen, cvars, dvars,
                    ivars, gvars, rvars, xvars, svars >>

\* the loop is over: sort by confidence and return
find_emails_sort ==
    /\ UNCHANGED hvars
    /\ epc = "verify"
    /\ e_index > Len(e_possible)
    /\ e_return(sort_by_confidence(e_verified))
    /\ UNCHANGED << e_possible, e_index, e_verified, e_dropped >>
    /\ UNCHANGED << top, vvars, driver, headless, fvars, page, clean_seen, cvars, dvars,
                    ivars, gvars, rvars, xvars, svars >>

RequestKinds == { "main", "index", "api" }

\* finder = EmailFinder(headless=...): a new finder without a driver
request_call(kind, request, visible) ==
    /\ UNCHANGED hvars
    /\ rpc = "idle"
    /\ rpc' = "try"
    /\ r_kind' = kind
    /\ r_exit' = "none"
    /\ r_first' = request.first_name
    /\ r_last' = request.last_name
    /\ r_company' = request.company
    /\ r_additional' = request.additional_domains
    /\ r_profile' = NoProfile
    /\ r_resolutions' = 0
    /\ headless' = ~visible
    /\ driver' = "None"
    /\ frame' = "main"
    /\ sessions' = 0
    /\ quits' = 0
    /\ UNCHANGED << top, vvars, fvars, page, clean_seen, cpc, c_sel, c_result, dvars,
                    ivars, gvars, xvars, evars >>

\* the first call in the try block: find_emails in main(),
\* extract_profile_info in the two routes
request_try ==
    /\ UNCHANGED hvars
    /\ rpc = "try"
    /\ IF r_kind = "main"
          THEN rpc' = "find_emails" /\ e_start
          ELSE rpc' = "profile" /\ x_start /\ UNCHANGED epc
    /\ UNCHANGED << r_kind, r_exit, r_first, r_last, r_company, r_additional, r_profile >>
    /\ UNCHANGED << x_result, e_possible, e_index, e_verified, e_dropped, e_result >>
    /\ UNCHANGED << d_domain, d_result, d_answer >>
    /\ UNCHANGED << top, vvars, driver, headless, fvars, page, clean_seen, cvars, ivars,
                    gvars, svars >>

\* if not profile_info: return ...; else find_emails is called
request_profile ==
    /\ UNCHANGED hvars
    /\ rpc = "profile"
    /\ xpc = "done"
    /\ IF ~x_result.info
          THEN /\ rpc' = "finally"
               /\ r_exit' = "return"
               /\ x_reset
               /\ UNCHANGED << epc, dpc, d_company, r_resolutions >>
          ELSE /\ rpc' = "find_emails"
               /\ e_start
               /\ x_result' = NoProfile
               /\ UNCHANGED r_exit
    /\ r_profile' = x_result
    /\ UNCHANGED << r_kind, r_first, r_last, r_company, r_additional >>
    /\ UNCHANGED << e_possible, e_index, e_verified, e_dropped, e_result >>
    /\ UNCHANGED << d_domain, d_result, d_answer >>
    /\ UNCHANGED << top, vvars, driver, headless, fvars, page, clean_seen, cvars, ivars,
                    gvars, svars >>

\* find_emails returned: the handler prints or renders the result; or it
\* raised: the routes report the error (except Exception), main() lets it pass
request_find_emails ==
    /\ UNCHANGED hvars
    /\ rpc = "find_emails"
    /\ epc \in { "done", "raised" }
    /\ rpc' = "finally"
    /\ r_exit' = IF epc = "done" THEN "normal"
                 ELSE IF r_kind = "main" THEN "exception" ELSE "error"
    /\ e_reset
    /\ UNCHANGED << r_kind, r_first, r_last, r_company, r_additional, r_profile,
                    r_resolutions >>
    /\ UNCHANGED << top, vvars, driver, headless, fvars, page, clean_seen, cvars, dvars,
                    ivars, gvars, xvars, svars >>

\* an exception leaves the try block: KeyboardInterrupt and SystemExit pass
\* every `except Exception` below the handler
request_exception ==
    /\ UNCHANGED hvars
    /\ rpc \in { "profile", "find_emails" }
    /\ rpc' = "finally"
    /\ r_exit' = "exception"
    /\ e_reset
    /\ x_reset
    /\ d_reset
    /\ g_reset
    /\ i_reset
    /\ f_reset
    /\ c_reset
    /\ UNCHANGED << r_kind, r_first, r_last, r_company, r_additional, r_profile,
                    r_resolutions >>
    /\ UNCHANGED << top, vvars, driver, headless, frame, svars >>

\* finally: finder.cleanup()
request_finally ==
    /\ UNCHANGED hvars
    /\ rpc = "finally"
    /\ rpc' = "done"
    /\ close_driver
    /\ UNCHANGED << r_kind, r_exit, r_first, r_last, r_company, r_additional, r_profile,
                    r_resolutions >>
    /\ UNCHANGED << top, vvars, headless, fvars, page, clean_seen, cpc, c_sel, c_result,
                    dvars, ivars, gvars, xvars, evars, sessions >>

\* the handler is left; the finder is dropped
request_return ==
    /\ UNCHANGED hvars
    /\ rpc = "done"
    /\ rpc' = "idle"
    /\ r_kind' = "none"
    /\ r_exit' = "none"
    /\ r_first' = ""
    /\ r_last' = ""
    /\ r_company' = ""
    /\ r_additional' = << >>
    /\ r_profile' = NoProfile
    /\ r_resolutions' = 0
    /\ sessions' = 0
    /\ quits' = 0
    /\ UNCHANGED << top, vvars, driver, headless, fvars, page, clean_seen, cvars, dvars,
                    ivars, gvars, xvars, evars >>

RInit ==
    /\ rpc = "idle"
    /\ r_kind = "none"
    /\ r_exit = "none"
    /\ r_first = ""
    /\ r_last = ""
    /\ r_company = ""
    /\ r_additional = << >>
    /\ r_profile = NoProfile
    /\ r_resolutions = 0
    /\ xpc = "idle"
    /\ x_result = NoProfile
    /\ epc = "idle"
    /\ e_possible = << >>
    /\ e_index = 0
    /\ e_verified = << >>
    /\ e_dropped = << >>
    /\ e_result = << >>
    /\ sessions = 0
    /\ quits = 0

-----------------------------------------------------------------------------
(* Finders side by side: each request of app.py builds its own EmailFinder; *)
(* what __init__ and the calls made on one finder read and write.          *)

Finders == { "f1", "f2" }

\* the keys of DEFAULT_CONFIG
ConfigKeys ==
    { "user_agents", "email_formats", "default_email_format", "delays", "retries" }

\* the object DEFAULT_CONFIG[key] refers to
DefaultObject(key) == "DEFAULT_CONFIG." \o key

\* the object json.load builds for a key of the file finder p reads
LoadedObject(p, key) == p \o "." \o key

Objects ==
    { DefaultObject(key) : key \in ConfigKeys }
        \cup { LoadedObject(p, key) : p \in Finders, key \in ConfigKeys }

\* the configuration files: the keys a file sets; no file sets none
UserConfigs == { { }, { "retries" }, { "delays", "user_agents" } }

\* the confidences verify_email gives the addresses find_emails keeps
Confidences == { "High", "Medium", "Low" }

MaxVerified == 1

NoFinder ==
    [pc |-> "none", config |-> "None", headless |-> TRUE, driver |-> "None",
     results |-> << >>]

NoDict == [key \in ConfigKeys |-> "None"]

config_copy_aliased(p) == "DEFAULT_CONFIG"

\* self.config = self.DEFAULT_CONFIG.copy(): the dict self.config refers to
\* is a new one, of finder p alone
config_copy(p) == p

\* __init__: the copy of DEFAULT_CONFIG, then self.config.update(user_config)
\* with the objects json.load has built; no driver yet
finder_init(p, visible, user_config) ==
    /\ finder[p].pc = "none"
    /\ LET c == config_copy(p)
           copied == [configs EXCEPT ![c] = configs["DEFAULT_CONFIG"]]
       IN  /\ configs' = [copied EXCEPT ![c] =
                            [key \in ConfigKeys |->
                                IF key \in user_config THEN LoadedObject(p, key)
                                ELSE copied[c][key]]]
           /\ finder' = [finder EXCEPT ![p] =
                            [pc |-> "ready", config |-> c, headless |-> ~visible,
                             driver |-> "None", results |-> << >>]]
    /\ objects' = [o \in Objects |->
                      IF \E key \in user_config : o = LoadedObject(p, key)
                         THEN "loaded" ELSE objects[o]]
    /\ actor' = p
    /\ UNCHANGED << top, vvars, driver, headless, fvars, page, clean_seen, cvars, dvars,
                    ivars, gvars, rvars, xvars, evars, svars >>

\* _safe_selenium_get: reads self.config["retries"] and, in _initialize_driver,
\* self.config["user_agents"]; starts this finder's driver unless that fails
finder_fetch(p) ==
    /\ finder[p].pc = "ready"
    /\ objects[configs[finder[p].config]["retries"]] # "free"
    /\ objects[configs[finder[p].config]["user_agents"]] # "free"
    /\ \/ finder' = [finder EXCEPT ![p].driver = "live"]
       \/ UNCHANGED finder
    /\ actor' = p
    /\ UNCHANGED << configs, objects >>
    /\ UNCHANGED << top, vvars, driver, headless, fvars, page, clean_seen, cvars, dvars,
                    ivars, gvars, rvars, xvars, evars, svars >>

\* verify_email with its own smtp object, and the append to verified_emails
finder_verify(p) ==
    /\ finder[p].pc = "ready"
    /\ Len(finder[p].results) < MaxVerified
    /\ \E confidence \in Confidences :
          finder' = [finder EXCEPT ![p].results = Append(@, confidence)]
    /\ actor' = p
    /\ UNCHANGED << configs, objects >>
    /\ UNCHANGED << top, vvars, driver, headless, fvars, page, clean_seen, cvars, dvars,
                    ivars, gvars, rvars, xvars, evars, svars >>

\* cleanup(): this finder's driver is quit
finder_cleanup(p) ==
    /\ finder[p].pc = "ready"
    /\ finder' = [finder EXCEPT ![p].pc = "closed", ![p].driver = "None"]
    /\ actor' = p
    /\ UNCHANGED << configs, objects >>
    /\ UNCHANGED << top, vvars, driver, headless, fvars, page, clean_seen, cvars, dvars,
                    ivars, gvars, rvars, xvars, evars, svars >>

\* the request is over: the finder, its dict and the objects of its file go
finder_drop(p) ==
    /\ finder[p].pc = "closed"
    /\ finder' = [finder EXCEPT ![p] = NoFinder]
    /\ configs' = [configs EXCEPT ![p] = NoDict]
    /\ objects' = [o \in Objects |->
                      IF \E key \in ConfigKeys : o = LoadedObject(p, key)
                         THEN "free" ELSE objects[o]]
    /\ actor' = p
    /\ UNCHANGED << top, vvars, driver, headless, fvars, page, clean_seen, cvars, dvars,
                    ivars, gvars, rvars, xvars, evars, svars >>

HInit ==
    /\ finder = [p \in Finders |-> NoFinder]
    /\ configs = [c \in { "DEFAULT_CONFIG" } \cup Finders |->
                    IF c = "DEFAULT_CONFIG"
                       THEN [key \in ConfigKeys |-> DefaultObject(key)]
                       ELSE NoDict]
    /\ objects = [o \in Objects |->
                    IF \E key \in ConfigKeys : o = DefaultObject(key)
                       THEN "default" ELSE "free"]
    /\ actor = "none"

-----------------------------------------------------------------------------

Init ==
    /\ top = "none"
    /\ VInit
    /\ FInit
    /\ DInit
    /\ IInit
    /\ GInit
    /\ RInit
    /\ HInit

Next ==
    \/ \E email \in VerifyInputs : verify_email_call(email)
    \/ verify_email_format
    \/ verify_email_mx_check
    \/ verify_email_mx_lookup
    \/ verify_email_connect
    \/ verify_email_connect_domain
    \/ verify_email_helo
    \/ verify_email_helo_failed
    \/ verify_email_starttls
    \/ verify_email_mail
    \/ verify_email_mail_failed
    \/ verify_email_rcpt
    \/ verify_email_rcpt_quit
    \/ verify_email_rcpt_failed
    \/ verify_email_return
    \/ safe_selenium_get_call
    \/ safe_selenium_get_initialize_driver
    \/ safe_selenium_get_loop
    \/ safe_selenium_get_get
    \/ safe_selenium_get_wait
    \/ safe_selenium_get_inspect
    \/ safe_selenium_get_handled
    \/ safe_selenium_get_return
    \/ handle_captcha_detect
    \/ handle_captcha_selector
    \/ handle_captcha_iframe
    \/ handle_captcha_checkbox
    \/ handle_captcha_manual
    \/ cleanup
    \/ \E company_name \in Companies : get_company_domain_call(company_name)
    \/ get_company_domain_dns
    \/ get_company_domain_search
    \/ get_company_domain_results
    \/ get_company_domain_search2
    \/ get_company_domain_snippets
    \/ get_company_domain_return
    \/ \E company_domain \in InferDomains : find_email_format_call(company_domain)
    \/ find_email_format_split
    \/ find_email_format_search
    \/ find_email_format_snippets
    \/ find_email_format_scan
    \/ find_email_format_search2
    \/ find_email_format_snippets2
    \/ find_email_format_scan2
    \/ find_email_format_return
    \/ \E first \in FirstNames, last \in LastNames, company_domain \in ProfileDomains,
          domains \in DomainLists :
          \* every name with an empty component, and two names without
          /\ \/ first = "" \/ last = ""
             \/ << first, last >> \in { << "John", "Smith" >>, << "J", "S" >> }
          /\ generate_email_patterns_call(first, last, company_domain, domains)
    \/ generate_email_patterns_names
    \/ generate_email_patterns_format
    \/ generate_email_patterns_patterns
    \/ generate_email_patterns_return

Spec == Init /\ [][Next]_vars

\* the steps inside _safe_selenium_get and _handle_captcha: each is a blocking
\* call bounded by a timeout, so a started fetch keeps taking steps
FetchStep ==
    \/ safe_selenium_get_initialize_driver
    \/ safe_selenium_get_loop
    \/ safe_selenium_get_get
    \/ safe_selenium_get_wait
    \/ safe_selenium_get_inspect
    \/ safe_selenium_get_handled
    \/ handle_captcha_detect
    \/ handle_captcha_selector
    \/ handle_captcha_iframe
    \/ handle_captcha_checkbox
    \/ handle_captcha_manual

FairSpec == Init /\ [][Next]_vars /\ WF_vars(FetchStep)

-----------------------------------------------------------------------------
(* Lines 597-671 of generate_email_patterns on their own: the list built   *)
(* from the name components, the company domain, the format inferred and  *)
(* the additional domains.                                                 *)

\* the additional domains of the pattern runs
SweepDomains == { "example.org", "mail.example.net" }

MaxSweeps == 2

SweepLists == SeqsUpTo(SweepDomains, MaxSweeps)

\* the names that reach line 588
PatternNames ==
    { n \in FirstNames \X LastNames : name_components(n[1], n[2]) # << >> }

\* what email_format holds at line 597: unset without a company domain, else
\* a value find_email_format returns
FormatsAt597(company_domain) ==
    IF ~has_company_domain(company_domain) THEN { PyNone }
    ELSE IF company_domain.kind = "str"
       THEN { PyStr(email_formats[k].name) : k \in 1..Len(email_formats) }
               \cup { PyList(common_formats_to_try) }
    ELSE { PyStr(default_email_format) }

PatternInit ==
    /\ RInit
    /\ HInit
    /\ top = "generate"
    /\ VInit
    /\ FInit
    /\ DInit
    /\ IInit
    /\ gpc = "patterns"
    /\ \E n \in PatternNames : g_first = n[1] /\ g_last = n[2]
    /\ g_company_domain \in ProfileDomains
    /\ g_email_format \in FormatsAt597(g_company_domain)
    /\ g_domains \in SweepLists
    /\ g_driver0 = "None"
    /\ g_patterns = << >>

PatternNext ==
    \/ generate_email_patterns_patterns
    \/ generate_email_patterns_return

PatternSpec == PatternInit /\ [][PatternNext]_vars

-----------------------------------------------------------------------------
(* Lines 476-493 of find_email_format on their own: the loops over the     *)
(* selectors, the snippets, the formats and the patterns on one parsed     *)
(* page.                                                                   *)

ScanInit ==
    /\ RInit
    /\ HInit
    /\ top = "infer"
    /\ VInit
    /\ FInit
    /\ DInit
    /\ GInit
    /\ ipc = "scan"
    /\ i_domain = PyStr("acme.com")
    /\ i_result = PyNone
    /\ i_matched = FALSE
    /\ i_raised = FALSE
    /\ i_source \in { << source >> : source \in PageSources \cup PatternSources }

ScanNext ==
    find_email_format_scan

ScanSpec == ScanInit /\ [][ScanNext]_vars

-----------------------------------------------------------------------------
(* The request handlers with everything they call.                         *)

RequestInit ==
    /\ top = "request"
    /\ VInit
    /\ FInit
    /\ DInit
    /\ IInit
    /\ GInit
    /\ RInit
    /\ HInit

RequestNext ==
    \/ \E kind \in RequestKinds, request \in Requests, visible \in BOOLEAN :
          request_call(kind, request, visible)
    \/ request_try
    \/ request_profile
    \/ request_find_emails
    \/ request_exception
    \/ request_finally
    \/ request_return
    \/ extract_profile_info_return
    \/ find_emails_profile
    \/ find_emails_generated
    \/ find_emails_verify
    \/ find_emails_sort
    \/ get_company_domain_dns
    \/ get_company_domain_search
    \/ get_company_domain_results
    \/ get_company_domain_search2
    \/ get_company_domain_snippets
    \/ generate_email_patterns_names
    \/ generate_email_patterns_format
    \/ generate_email_patterns_patterns
    \/ find_email_format_split
    \/ find_email_format_search
    \/ find_email_format_snippets
    \/ find_email_format_scan
    \/ find_email_format_search2
    \/ find_email_format_snippets2
    \/ find_email_format_scan2
    \/ FetchStep

RequestSpec == RequestInit /\ [][RequestNext]_vars

-----------------------------------------------------------------------------
(* Two finders at once, their steps interleaved in any order.              *)

ConcurrentNext ==
    \/ \E p \in Finders, visible \in BOOLEAN, user_config \in UserConfigs :
          finder_init(p, visible, user_config)
    \/ \E p \in Finders : finder_fetch(p)
    \/ \E p \in Finders : finder_verify(p)
    \/ \E p \in Finders : finder_cleanup(p)
    \/ \E p \in Finders : finder_drop(p)

ConcurrentSpec == Init /\ [][ConcurrentNext]_vars

-----------------------------------------------------------------------------
(* The verification probe.                                                 *)

\* C1: whenever RCPT TO was answered, the outcome follows the reply code:
\* 250 gives High, 550 gives Invalid, any other code gives Medium.
C1_ReplyCodeDecidesOutcome ==
    (vpc = "done" /\ v_reply # 0) =>
        /\ v_reply = 250 => v_result = Result(TRUE, "High")
        /\ v_reply = 550 => v_result = Result(FALSE, "Invalid")
        /\ v_reply \notin { 250, 550 } => v_result = Result(TRUE, "Medium")

\* C2: once a 550 reply to RCPT TO was observed, verify_email returns
\* Invalid with is_valid false, whatever closing the session does.
C2_RejectForcesInvalid ==
    (vpc = "done" /\ v_reply = 550) => v_result = Result(FALSE, "Invalid")

-----------------------------------------------------------------------------
(* The fetcher.                                                            *)

\* C4: a started _safe_selenium_get ends; it calls driver.get at most
\* max_attempts times, and when max_attempts attempts failed it returns False.
C4_FetchEndsWithinMaxAttempts ==
    /\ [](f_gets <= max_attempts)
    /\ []((fpc = "done" /\ f_failed = max_attempts) => f_result = "False")
    /\ (fpc = "initialize_driver") ~> (fpc = "done")

\* C4 witness: all max_attempts attempts were made and failed
C4_Witness ==
    /\ fpc = "done"
    /\ f_gets = max_attempts
    /\ f_failed = max_attempts
    /\ f_result = "False"

\* C5: when every page the browser showed carried a challenge marker, the
\* fetch returns False, in headless and in visible mode.
C5_UnresolvedChallengeFails ==
    (fpc = "done" /\ f_gets > 0 /\ ~clean_seen) => f_result = "False"

-----------------------------------------------------------------------------
(* The domain resolver.                                                    *)

\* C6: get_company_domain always returns a single domain string, the direct
\* guess or a host taken from a search result.
C6_ResolveReturnsDomain ==
    dpc = "done" =>
        /\ d_result.kind = "str"
        /\ d_result.str \in { "acme.com", "bigcorp.com", "acme.io" }

-----------------------------------------------------------------------------
(* Format inference.                                                       *)

FormatVocabulary ==
    { "firstinitiallastname@", "firstname.lastname@", "firstname@",
      "firstinitial.lastname@", "firstnamelastname@", "firstname_lastname@",
      "lastname.firstname@", "lastnameonly@" }

\* C7: find_email_format returns, on every path, a non-empty list of format
\* names of the vocabulary.
C7_InferReturnsList ==
    ipc = "done" =>
        /\ i_result.kind = "list"
        /\ i_result.list # << >>
        /\ \A k \in 1..Len(i_result.list) : i_result.list[k] \in FormatVocabulary

\* C7, as the code has it: find_email_format returns either one format name
\* of the vocabulary, as a string, or a non-empty list of such names; a
\* matched pattern always gives the single name.
C7_InferReturnsNameOrList ==
    ipc = "done" =>
        /\ \/ i_result.kind = "str" /\ i_result.str \in FormatVocabulary
           \/ /\ i_result.kind = "list"
              /\ i_result.list # << >>
              /\ \A k \in 1..Len(i_result.list) : i_result.list[k] \in FormatVocabulary
        /\ i_matched => i_result.kind = "str"

C7_Witness ==
    /\ ipc = "done"
    /\ i_matched
    /\ i_result = PyStr("firstinitiallastname@")

\* C8: whenever no snippet matched a pattern, find_email_format returns
\* exactly the five fallback formats in their order.
C8_NoMatchGivesFallback ==
    (ipc = "done" /\ ~i_matched) =>
        i_result = PyList(<< "firstinitiallastname@", "firstname.lastname@", "firstname@",
                             "firstnamelastname@", "firstname_lastname@" >>)

\* C8, as the code has it: with no match and no exception reaching the outer
\* handler the five fallback formats are returned in their order; an
\* exception reaching the outer handler gives the single default format.
C8_NoMatchGivesFallbackOrDefault ==
    (ipc = "done" /\ ~i_matched) =>
        /\ ~i_raised =>
              i_result = PyList(<< "firstinitiallastname@", "firstname.lastname@",
                                   "firstname@", "firstnamelastname@",
                                   "firstname_lastname@" >>)
        /\ i_raised => i_result = PyStr("firstname.lastname@")

C8_Witness ==
    /\ ipc = "done"
    /\ ~i_matched
    /\ ~i_raised
    /\ i_domain = PyStr("acme.com")
    /\ i_result.kind = "list"

-----------------------------------------------------------------------------
(* The pattern generator.                                                  *)

\* the number of "@" in s
CountAt(s) == Cardinality({ i \in 1..Len(s) : At(s, i) = "@" })

\* local@domain with one "@", a non-empty local part and a domain of the
\* shape [^.]+\..+
WellFormed(candidate) ==
    LET n == FirstOf({ "@" }, candidate)
        domain == SubSeq(candidate, n + 1, Len(candidate))
        dot == FirstOf({ "." }, domain)
    IN  /\ CountAt(candidate) = 1
        /\ n > 1
        /\ dot > 1
        /\ dot < Len(domain)

DomainPart(candidate) ==
    SubSeq(candidate, FirstOf({ "@" }, candidate) + 1, Len(candidate))

\* C9: with non-empty first and last name, every generated candidate is a
\* well-formed local@domain whose domain is the company domain or one of
\* the additional domains.
C9_CandidatesWellFormed ==
    (gpc = "done" /\ g_first # "" /\ g_last # "") =>
        \A k \in 1..Len(g_patterns) :
            /\ WellFormed(g_patterns[k])
            /\ DomainPart(g_patterns[k]) \in
                  { "acme.com" } \cup { g_domains[m] : m \in 1..Len(g_domains) }

\* C10: generate_email_patterns performs no fetch and acquires no browser
\* session.
C10_GenerateIsPure ==
    gpc # "idle" => (fpc = "idle" /\ ipc = "idle" /\ driver = g_driver0)

\* C10, as the code has it: without a company domain in the profile
\* generate_email_patterns neither infers a format nor fetches nor touches
\* the session; with one, every fetch made is a search of
\* find_email_format; and the list returned is fixed by the names, the
\* domains and the format inferred, whatever the session and the network
\* did.
C10_GenerateFetchesOnlyForFormat ==
    /\ (gpc # "idle" /\ g_company_domain = PyNone) =>
          (fpc = "idle" /\ ipc = "idle" /\ driver = g_driver0)
    /\ (top = "generate" /\ fpc # "idle") =>
          (gpc = "format" /\ ipc \in { "snippets", "snippets2" })
    /\ (gpc = "done" /\ g_first = "John" /\ g_last = "Smith"
            /\ g_domains = << "example.org" >>) =>
          /\ g_company_domain = PyNone =>
                g_patterns = << "jsmith@example.org", "john@example.org",
                                "smith@example.org", "john.smith@example.org",
                                "john_smith@example.org", "johnsmith@example.org",
                                "j.smith@example.org" >>
          /\ (g_company_domain = PyStr("acme.com")
                  /\ g_email_format = PyStr("firstname.lastname@")) =>
                g_patterns = << "john.smith@acme.com",
                                "jsmith@example.org", "john@example.org",
                                "smith@example.org", "john.smith@example.org",
                                "john_smith@example.org", "johnsmith@example.org",
                                "j.smith@example.org" >>
          /\ (g_company_domain = PyStr("acme.com") /\ g_email_format.kind = "list") =>
                g_patterns = << "jsmith@acme.com", "john.smith@acme.com",
                                "john@acme.com", "johnsmith@acme.com",
                                "john_smith@acme.com",
                                "jsmith@example.org", "john@example.org",
                                "smith@example.org", "john.smith@example.org",
                                "john_smith@example.org", "johnsmith@example.org",
                                "j.smith@example.org" >>

C10_Witness ==
    /\ gpc = "done"
    /\ g_first = "John"
    /\ g_last = "Smith"
    /\ g_company_domain = PyStr("acme.com")
    /\ g_domains = << "example.org" >>
    /\ g_email_format = PyStr("firstname.lastname@")
    /\ driver # g_driver0

-----------------------------------------------------------------------------
(* The verification probe: connection, MX records, command order.          *)

\* command c has been sent in this call of verify_email
Sent(c) == \E k \in 1..Len(cmds) : cmds[k] = c

\* the position of the first c among the commands sent, 0 if there is none
FirstSent(c) ==
    IF Sent(c) THEN CHOOSE k \in 1..Len(cmds) :
                        cmds[k] = c /\ \A j \in 1..(k - 1) : cmds[j] # c
    ELSE 0

\* C12: when verify_email returns, no SMTP connection it opened is still
\* open, whichever way it returns.
C12_ConnectionClosedOnReturn ==
    vpc = "done" => smtp # "open"

C12_Witness ==
    /\ vpc = "done"
    /\ smtp = "closed"
    /\ v_fail = "rcpt"
    /\ v_result = Result(TRUE, "Medium")

\* C15: when an MX lookup answered with no records, the outcome of
\* verify_email is never High.
C15_NoMxNeverHigh ==
    (vpc = "done" /\ (mx_answer = "empty" \/ mx_answer2 = "empty")) =>
        v_result.confidence # "High"

C15_Witness ==
    /\ vpc = "done"
    /\ mx_answer = "records"
    /\ mx_answer2 = "empty"

\* C16: after an MX lookup that answered with no records verify_email still
\* goes on to the SMTP probe, so its outcome is one the probe gives.
C16_NoMxStillProbes ==
    (vpc = "done" /\ mx_answer = "empty") =>
        \/ v_result.is_valid
        \/ v_result.confidence \in { "Invalid", "Connection failed", "HELO failed",
                                     "MAIL FROM failed" }

\* C16, as the code has it: an MX lookup that answered with no records ends
\* verify_email at once, not valid, before any connection is made; the
\* probe is tried against the bare domain only when the second lookup
\* raised.
C16_NoMxAborts ==
    /\ (vpc = "done" /\ mx_answer = "empty") =>
          /\ v_result = Result(FALSE, "No MX records")
          /\ cmds = << >>
          /\ smtp = "none"
    /\ (vpc = "done" /\ mx_answer2 = "empty") =>
          /\ v_result = Result(FALSE, "No MX domain")
          /\ cmds = << >>
          /\ smtp = "none"
    /\ mx_domain = "domain" => mx_answer2 \in { "error", "malformed" }

C16_Witness ==
    /\ vpc = "done"
    /\ mx_answer = "empty"
    /\ v_email = "jsmith@acme.com"

\* C17: the commands of the probe come in the order connect, HELO, optional
\* STARTTLS and HELO, MAIL FROM, RCPT TO; RCPT TO is sent only after the
\* server accepted MAIL FROM, MAIL FROM only after it accepted HELO, a
\* STARTTLS attempt does not prevent MAIL FROM, and DATA is never sent.
C17_ProbeOrder ==
    /\ cmds # << >> => cmds[1] = "CONNECT"
    /\ Sent("HELO") => FirstSent("CONNECT") < FirstSent("HELO")
    /\ Sent("STARTTLS") => FirstSent("HELO") < FirstSent("STARTTLS")
    /\ Sent("MAIL") =>
          /\ FirstSent("HELO") < FirstSent("MAIL")
          /\ FirstSent("STARTTLS") < FirstSent("MAIL")
          /\ "HELO" \notin v_rejected
    /\ Sent("RCPT") =>
          /\ FirstSent("MAIL") < FirstSent("RCPT")
          /\ "MAIL" \notin v_rejected
    /\ (vpc = "done" /\ Sent("STARTTLS")) => Sent("MAIL")
    /\ ~Sent("DATA")

-----------------------------------------------------------------------------
(* The pattern generator: the lists built.                                 *)

\* the number of candidates for the company domain in a list that ends
\* with sweeps of the given size
CompanyCount(size) == Len(g_patterns) - size * Len(g_domains)

\* the m-th sweep of the given size
Sweep(m, size) ==
    SubSeq(g_patterns, CompanyCount(size) + size * (m - 1) + 1,
                       CompanyCount(size) + size * m)

JohnSmithDone ==
    gpc = "done" /\ g_first = "John" /\ g_last = "Smith"

\* C18: for each additional domain the same eight patterns are emitted:
\* first initial + last, first, last, dotted, underscored, concatenated,
\* concatenated with last initial, dotted reversed.
C18_EightPatternsPerDomain ==
    JohnSmithDone =>
        /\ CompanyCount(8) >= 0
        /\ \A m \in 1..Len(g_domains) :
              Sweep(m, 8) = << "jsmith@" \o g_domains[m], "john@" \o g_domains[m],
                               "smith@" \o g_domains[m], "john.smith@" \o g_domains[m],
                               "john_smith@" \o g_domains[m], "johnsmith@" \o g_domains[m],
                               "johns@" \o g_domains[m], "smith.john@" \o g_domains[m] >>

\* C18, as the code has it: for each additional domain the same seven
\* patterns are emitted, whatever format was inferred: first initial +
\* last, first, last, dotted, underscored, concatenated, first initial
\* dot last.
C18_SevenPatternsPerDomain ==
    JohnSmithDone =>
        /\ CompanyCount(7) >= 0
        /\ \A m \in 1..Len(g_domains) :
              Sweep(m, 7) = << "jsmith@" \o g_domains[m], "john@" \o g_domains[m],
                               "smith@" \o g_domains[m], "john.smith@" \o g_domains[m],
                               "john_smith@" \o g_domains[m], "johnsmith@" \o g_domains[m],
                               "j.smith@" \o g_domains[m] >>

C18_Witness ==
    /\ JohnSmithDone
    /\ g_domains = << "example.org", "mail.example.net" >>
    /\ g_email_format = PyStr("lastnameonly@")

\* the address each format stands for, for John Smith at acme.com
AcmeAddress(format_type) ==
    CASE format_type = "firstinitiallastname@" -> "jsmith@acme.com"
      [] format_type = "firstname.lastname@" -> "john.smith@acme.com"
      [] format_type = "firstname@" -> "john@acme.com"
      [] format_type = "firstinitial.lastname@" -> "j.smith@acme.com"
      [] format_type = "firstnamelastname@" -> "johnsmith@acme.com"
      [] format_type = "firstname_lastname@" -> "john_smith@acme.com"
      [] format_type = "lastname.firstname@" -> "smith.john@acme.com"
      [] format_type = "lastnameonly@" -> "smith@acme.com"
      [] OTHER -> ""

\* the formats inferred, as a list
InferredList ==
    IF g_email_format.kind = "list" THEN g_email_format.list
    ELSE << g_email_format.str >>

\* C19: for the company domain exactly one address is emitted per format
\* inferred, the i-th built by the rule of the i-th format; with
\* firstname.lastname@ inferred for John Smith at acme.com,
\* john.smith@acme.com comes first.
C19_OneAddressPerFormat ==
    (JohnSmithDone /\ g_company_domain = PyStr("acme.com")) =>
        /\ CompanyCount(7) = Len(InferredList)
        /\ \A k \in 1..Len(InferredList) : g_patterns[k] = AcmeAddress(InferredList[k])
        /\ g_email_format = PyStr("firstname.lastname@") =>
              g_patterns[1] = "john.smith@acme.com"

C19_Witness ==
    /\ JohnSmithDone
    /\ g_company_domain = PyStr("acme.com")
    /\ g_email_format = PyStr("lastname.firstname@")
    /\ g_patterns[1] = "smith.john@acme.com"

\* C20: all candidates for the company domain come before all candidates
\* for additional domains, and the sweeps come in the order of the
\* domains given.
C20_CompanyFirstThenSweepsInOrder ==
    (JohnSmithDone /\ g_company_domain \in { PyNone, PyStr("acme.com") }) =>
        /\ CompanyCount(7) >= 0
        /\ \A k \in 1..Len(g_patterns) :
              DomainPart(g_patterns[k]) =
                  IF k <= CompanyCount(7) THEN "acme.com"
                  ELSE g_domains[((k - CompanyCount(7) - 1) \div 7) + 1]

C20_Witness ==
    /\ JohnSmithDone
    /\ g_company_domain = PyStr("acme.com")
    /\ g_email_format.kind = "list"
    /\ g_domains = << "mail.example.net", "example.org" >>

-----------------------------------------------------------------------------
(* The request handlers and find_emails.                                   *)

\* C11: when a request handler is left, by normal completion, early return
\* or exception, the finder holds no browser session and every session it
\* started has been quit exactly once; until then it holds at most the one
\* session not yet quit.
C11_SessionReleasedOnExit ==
    /\ sessions = quits + (IF driver = "live" THEN 1 ELSE 0)
    /\ rpc = "done" =>
          /\ driver = "None"
          /\ quits = sessions
          /\ sessions <= 1

C11_Witness ==
    /\ rpc = "done"
    /\ r_kind = "api"
    /\ r_exit = "exception"
    /\ sessions = 1
    /\ quits = 1

\* the addresses in a list of results
Emails(l) == { l[k].email : k \in 1..Len(l) }

\* C13: every candidate generated is in the list find_emails returns.
C13_EveryCandidateReturned ==
    epc = "done" => \A k \in 1..Len(e_possible) : e_possible[k] \in Emails(e_result)

\* C13, as the code has it: the list returned holds exactly the candidates
\* verify_email reported valid, each once with the confidence it was given
\* (High, Medium or Low); the candidates reported not valid are left out.
C13_ValidCandidatesReturned ==
    /\ epc = "verify" => Len(e_verified) + Len(e_dropped) = e_index - 1
    /\ epc = "done" =>
          /\ Len(e_result) = Len(e_verified)
          /\ Len(e_result) + Len(e_dropped) = Len(e_possible)
          /\ \A k \in 1..Len(e_result) :
                /\ \E j \in 1..Len(e_verified) : e_verified[j] = e_result[k]
                /\ e_result[k].confidence \in { "High", "Medium", "Low" }
          /\ \A k \in 1..Len(e_possible) :
                e_possible[k] \in Emails(e_result) <=> e_possible[k] \notin Range(e_dropped)

C13_Witness ==
    /\ epc = "done"
    /\ Len(e_possible) = 5
    /\ Len(e_dropped) = 2
    /\ Len(e_result) = 3

TierRank(confidence) ==
    CASE confidence = "High" -> 0
      [] confidence = "Medium" -> 1
      [] confidence = "Low" -> 2
      [] OTHER -> 3

\* the place of an address in possible_emails
Generated(email) == CHOOSE k \in 1..Len(e_possible) : e_possible[k] = email

\* C14: the list find_emails returns never rises in confidence (High, then
\* Medium, then Low, then Invalid), and entries of equal confidence keep the
\* order in which they were generated.
C14_RankedAndStable ==
    epc = "done" =>
        \A i, j \in 1..Len(e_result) :
            i < j =>
                /\ TierRank(e_result[i].confidence) <= TierRank(e_result[j].confidence)
                /\ e_result[i].confidence = e_result[j].confidence =>
                      Generated(e_result[i].email) < Generated(e_result[j].email)

C14_Witness ==
    /\ epc = "done"
    /\ Len(e_result) = 4
    /\ e_verified[1].confidence = "Low"
    /\ e_verified[2].confidence = "High"
    /\ e_verified[3].confidence = "Low"
    /\ e_verified[4].confidence = "High"
    /\ e_result[1] = e_verified[2]
    /\ e_result[2] = e_verified[4]

-----------------------------------------------------------------------------
(* generate_email_patterns on short names.                                 *)

\* C21: generate_email_patterns never raises for a name of length 0 or 1, and
\* with an empty first name it still emits the patterns that do not need it
\* (the last name alone at every additional domain).
C21_EmptyNameKeepsOtherPatterns ==
    /\ gpc # "raised"
    /\ (gpc = "done" /\ g_first = "" /\ g_last # "" /\ g_domains # << >>) =>
          \A k \in 1..Len(g_domains) :
              (Lower(g_last) \o "@" \o g_domains[k]) \in Range(g_patterns)

\* C21, as the code has it: generate_email_patterns never raises for a name
\* of length 0 or 1; when the first or the last name is empty and the other
\* is at most one word it returns no pattern at all; a name of length 1 is
\* its own initial and gets every pattern.
C21_EmptyNameGivesNoPattern ==
    /\ gpc # "raised"
    /\ (gpc = "done" /\ (g_first = "" \/ g_last = "")) => g_patterns = << >>
    /\ (gpc = "done" /\ g_first # "" /\ g_last # "") =>
          /\ \A k \in 1..Len(g_domains) :
                /\ (At(Lower(g_first), 1) \o Lower(g_last) \o "@" \o g_domains[k])
                       \in Range(g_patterns)
                /\ (Lower(g_last) \o "@" \o g_domains[k]) \in Range(g_patterns)
          /\ Len(g_first) = 1 =>
                \A k \in 1..Len(g_domains) :
                    Sweep(k, 7)[1] = Sweep(k, 7)[6]

C21_Witness ==
    /\ top = "generate"
    /\ gpc = "done"
    /\ g_first = ""
    /\ g_last = "Smith"
    /\ g_domains = << "example.org" >>
    /\ has_company_domain(g_company_domain)
    /\ g_patterns = << >>

-----------------------------------------------------------------------------
(* _safe_selenium_get: backoff, challenge markers, page-load timeout.      *)

\* C22: the k-th failed attempt (counted from 0) is followed by a wait of
\* backoff_factor^k seconds, and waits occur only between two attempts: a
\* fetch whose max_attempts attempts all failed has waited max_attempts - 1
\* times, and not after the last attempt.
C22_BackoffOnlyBetweenAttempts ==
    /\ \A k \in 1..Len(f_sleeps) : f_sleeps[k] = Pow(backoff_factor, k - 1)
    /\ (fpc = "done" /\ f_result = "False" /\ f_failed = max_attempts) =>
          Len(f_sleeps) = max_attempts - 1

-----------------------------------------------------------------------------
(* find_emails under failures.                                             *)

\* C23: find_emails never raises, whichever of browser start-up, DNS lookup,
\* web fetch, challenge handling or SMTP step fails: no exception leaves
\* find_email_format, generate_email_patterns or find_emails, and when no
\* browser could be started the candidates are built from the default
\* format firstname.lastname@.
C23_FindEmailsNeverRaises ==
    /\ ipc # "raised"
    /\ gpc # "raised"
    /\ epc # "raised"
    /\ r_exit # "error"
    /\ (epc = "done" /\ sessions = 0 /\ r_first = "John") =>
          /\ e_possible # << >>
          /\ SubSeq(e_possible[1], 1, 11) = "john.smith@"
          /\ Len(e_result) + Len(e_dropped) = Len(e_possible)

C23_Witness ==
    /\ epc = "done"
    /\ r_first = "John"
    /\ sessions = 0
    /\ driver = "None"
    /\ e_possible = << "john.smith@firstname.lastname@" >>
    /\ e_result = << >>

-----------------------------------------------------------------------------
(* Finders side by side.                                                   *)

\* the configuration finder p works with: for every key, the value read
\* through self.config
ConfigOf(p) ==
    IF finder[p].config = "None" THEN [key \in ConfigKeys |-> "None"]
    ELSE [key \in ConfigKeys |-> objects[configs[finder[p].config][key]]]

\* C24: under every interleaving of two finders, no step of one (its
\* construction with or without a configuration file, a fetch, a
\* verification, its cleanup) changes the other's configuration, driver or
\* results, and DEFAULT_CONFIG and the objects it refers to are never
\* changed.
C24_NoSharedMutableState ==
    [][ /\ configs'["DEFAULT_CONFIG"] = configs["DEFAULT_CONFIG"]
        /\ \A key \in ConfigKeys :
              objects'[DefaultObject(key)] = objects[DefaultObject(key)]
        /\ \A p \in Finders :
              actor' # p =>
                  /\ finder'[p] = finder[p]
                  /\ ConfigOf(p)' = ConfigOf(p) ]_vars

C24_Witness ==
    /\ actor = "f2"
    /\ finder["f1"].driver = "live"
    /\ finder["f2"].driver = "live"
    /\ ConfigOf("f1")["retries"] = "loaded"
    /\ ConfigOf("f1")["delays"] = "default"
    /\ ConfigOf("f2")["retries"] = "default"
    /\ ConfigOf("f2")["delays"] = "loaded"
    /\ finder["f1"].results # << >>
    /\ finder["f2"].results # << >>

-----------------------------------------------------------------------------
(* The profile of a request.                                               *)

\* C25: within one request the company domain is resolved a single time,
\* and the profile a route reports to its caller is the one the candidates
\* are generated from.
C25_ProfileCreatedOnce ==
    /\ r_resolutions <= 1
    /\ (rpc = "find_emails" /\ r_kind # "main" /\ gpc # "idle") =>
          g_company_domain = r_profile.company_domain

-----------------------------------------------------------------------------
(* _safe_selenium_get: timeouts and challenge markers.                     *)

\* C26: _safe_selenium_get returns True straight from its inspection of the
\* page, without challenge handling, only for a page that holds none of
\* the captcha_indicators.
C26_MarkerMeansChallenge ==
    [][(fpc = "inspect" /\ fpc' = "done" /\ f_result' = "True")
           => ~captcha_detected(page)]_vars

\* C27: a timeout while the page loads or while its completion is awaited
\* does not fail the attempt: the attempt goes on to the inspection of the
\* page.
C27_TimeoutGoesOnToInspection ==
    f_timeout => fpc = "inspect"

\* C28: _handle_captcha leaves the browsing context on the main document:
\* whenever it returns, after a checkbox click, with no checkbox found or
\* after an error, the driver is not left inside the reCAPTCHA iframe.
C28_ContextBackOnMainDocument ==
    cpc = "done" => frame = "main"

\* the snippets of a page in the order of its results, whatever selects them
RECURSIVE snippets_in_result_order(_)
snippets_in_result_order(source) ==
    IF source = << >> THEN << >>
    ELSE (IF Len(Strip(Head(source).text)) > 20
             THEN << Lower(Head(source).text) >> ELSE << >>)
            \o snippets_in_result_order(Tail(source))

\* the format of the first snippet, in the order of the results, that holds a
\* pattern, formats tried in the order of the vocabulary; "" when none does
first_match_in_result_order ==
    [source \in PageSources \cup PatternSources |->
        LET snippets == snippets_in_result_order(source)
            holds(n, f) == \E j \in 1..Len(email_formats[f].patterns) :
                              Contains(email_formats[f].patterns[j], snippets[n])
            hit(n) == \E f \in 1..Len(email_formats) : holds(n, f)
        IN  IF \A n \in 1..Len(snippets) : ~hit(n) THEN ""
            ELSE LET n == CHOOSE m \in 1..Len(snippets) :
                             hit(m) /\ \A l \in 1..(m - 1) : ~hit(l)
                     f == CHOOSE g \in 1..Len(email_formats) :
                             holds(n, g) /\ \A h \in 1..(g - 1) : ~holds(n, h)
                 IN  email_formats[f].name]

\* C29: find_email_format returns the format of the first pattern match:
\* the snippets are scanned in the order of the results, snippets of 20
\* characters or fewer are ignored, within a snippet the formats are tried in
\* the order of the vocabulary, and the second search is issued only when
\* the first one produced no match.
C29_FirstMatchInResultOrder ==
    /\ (ipc = "done" /\ i_source # << >> /\ ~i_raised) =>
          IF first_match_in_result_order[i_source[1]] # ""
             THEN i_result = PyStr(first_match_in_result_order[i_source[1]])
             ELSE i_result.kind = "list"
    /\ (ipc = "search2" /\ i_source # << >>) =>
          first_match_in_result_order[i_source[1]] = ""

\* C30: each pattern identifies its own format: a snippet that holds one
\* pattern of a format and otherwise neutral text, longer than 20
\* characters, is inferred as that format and as no other.
C30_EachPatternGivesItsFormat ==
    \A f \in 1..Len(email_formats) :
        \A j \in 1..Len(email_formats[f].patterns) :
            \A k \in 1..Len(snippet_selectors) :
                (/\ ipc \in { "done", "search2" }
                 /\ i_source = << << [selector |-> snippet_selectors[k],
                                      text |-> neutral_text
                                                  \o email_formats[f].patterns[j]] >> >>)
                    => i_result = PyStr(email_formats[f].name)

-----------------------------------------------------------------------------
(* get_company_domain: the direct guess.                                   *)

\* C31: when the DNS check of the direct guess (the company name lower-cased
\* with its spaces removed, then ".com") reports records, get_company_domain
\* returns that guess at once: no search is issued, no fetch is started and
\* the browser session is left as it was.
C31_DirectGuessReturnedWithoutSearch ==
    [][d_answer' = "records" =>
          /\ dpc' = "done"
          /\ d_result' = PyStr(RemoveSpaces(Lower(d_company')) \o ".com")
          /\ fpc' = "idle"
          /\ cpc' = "idle"
          /\ driver' = driver
          /\ sessions' = sessions
          /\ f_gets' = f_gets
          /\ page' = page]_vars

C31_Witness ==
    /\ d_answer = "records"
    /\ d_company = " Big Corp"
    /\ d_result = PyStr("bigcorp.com")
    /\ driver = "None"

-----------------------------------------------------------------------------
(* verify_email: the MX lookups.                                           *)

\* C32: within one verify_email call the MX lookup is made once: after the
\* MX check has its answer no second lookup is made, and a call whose MX
\* check found records never ends with the outcome of a lookup that found
\* none.
C32_MxLookupMadeOnce ==
    /\ mx_answer # "none" => mx_answer2 = "none"
    /\ (vpc = "done" /\ mx_answer = "records") =>
          v_result \notin { Result(FALSE, "No MX domain"),
                            Result(FALSE, "No MX records") }

-----------------------------------------------------------------------------
(* The browser session of one finder over its fetches and cleanups.        *)

\* C33: over any sequence of fetches and cleanups of one finder at most one
\* browser session is live: a session is started only by the
\* _initialize_driver of a fetch and only when the finder holds none, a fetch
\* that finds a live session keeps it and starts no other, and a cleanup (the
\* one step taken between two calls) leaves the finder with no session and
\* changes nothing when there was none.
C33_AtMostOneSession ==
    [][/\ sessions <= 1 /\ sessions' <= 1
       /\ sessions = (IF driver = "live" THEN 1 ELSE 0)
       /\ sessions' = (IF driver' = "live" THEN 1 ELSE 0)
       /\ (driver' # driver /\ driver' = "live") =>
              (fpc = "initialize_driver" /\ driver = "None")
       /\ (fpc = "initialize_driver" /\ driver = "live") =>
              (driver' = "live" /\ sessions' = sessions)
       /\ (top = "none" /\ top' = "none") =>
              /\ driver' = "None"
              /\ sessions' = 0
              /\ driver = "None" => vars' = vars]_vars

C33_Witness ==
    /\ top = "fetch"
    /\ fpc = "initialize_driver"
    /\ driver = "live"
    /\ sessions = 1
    /\ f_gets = 0

====
